---- MODULE Spec2Model ----
(***************************************************************************)
(* PingMe: reminders persisted in the reminders table, one APScheduler     *)
(* date job per reminder id ("reminder_<id>"), the delivery coroutine      *)
(* send_reminder, the bot's callback / dialog handlers and the REST API.   *)
(*                                                                         *)
(* Time is counted in minutes since 2026-01-01 00:00 UTC.  A stored        *)
(* remind_at and a job's run_date are naive wall-clock minutes in some     *)
(* timezone; the timezone's fixed UTC offset converts them.                *)
(***************************************************************************)
EXTENDS Integers, Sequences, FiniteSets, TLC

\* ------------------------------------------------------------------ bounds
MaxReminders == 2
MaxTicks == 2
MaxRestarts == 1
MaxOps == 2
MaxCreateOps == 3
MaxAdvances == 3
MaxDialogOps == 3
MaxCatchUp == 8

\* ------------------------------------------------------- program constants
Hour == 60
Day == 1440
Week == 10080
DEFAULT_SNOOZE_MINUTES == 15
DebugRepeatMinutes == 1
MisfireGrace == 60
DefaultMisfireGrace == 1

Debug == TRUE
DEFAULT_TIMEZONE == "Europe/Moscow"
SettingsTimezone == "Europe/Moscow"
REMINDER_REPEAT_MINUTES == IF Debug THEN DebugRepeatMinutes ELSE DEFAULT_SNOOZE_MINUTES

SNOOZE_OPTIONS == {5, 15, 30}
TIMEZONE_OPTIONS ==
    [z \in {"Europe/Kaliningrad", "Europe/Moscow", "Europe/Samara",
            "Asia/Yekaterinburg", "Asia/Omsk", "Asia/Krasnoyarsk",
            "Asia/Irkutsk", "Asia/Yakutsk", "Asia/Vladivostok",
            "Asia/Magadan", "Asia/Kamchatka"} |->
        CASE z = "Europe/Kaliningrad" -> 2
          [] z = "Europe/Moscow" -> 3
          [] z = "Europe/Samara" -> 4
          [] z = "Asia/Yekaterinburg" -> 5
          [] z = "Asia/Omsk" -> 6
          [] z = "Asia/Krasnoyarsk" -> 7
          [] z = "Asia/Irkutsk" -> 8
          [] z = "Asia/Yakutsk" -> 9
          [] z = "Asia/Vladivostok" -> 10
          [] z = "Asia/Magadan" -> 11
          [] OTHER -> 12]
VALID_TZ_IDS == DOMAIN TIMEZONE_OPTIONS

None == 0
NoTz == "none"
NoRec == "none"
Recurrences == {"hourly", "daily", "weekly", "monthly", "yearly"}

\* ------------------------------------------------------------------ clock
\* UTC offset of a zone, in minutes (the offered zones have no DST).
Off(z) == TIMEZONE_OPTIONS[z] * Hour

\* _now_tz(tz): the naive wall clock of zone z at UTC minute t.
NowTz(t, z) == t + Off(z)

\* --------------------------------------------------------------- calendar
IsLeap(y) == (y % 4 = 0 /\ y % 100 # 0) \/ y % 400 = 0
DaysInMonth(y, m) ==
    IF m = 2 THEN (IF IsLeap(y) THEN 29 ELSE 28)
    ELSE IF m \in {4, 6, 9, 11} THEN 30 ELSE 31
DaysInYear(y) == IF IsLeap(y) THEN 366 ELSE 365
EpochYear == 2026

RECURSIVE DaysBeforeYear(_)
DaysBeforeYear(y) == IF y <= EpochYear THEN 0 ELSE DaysBeforeYear(y - 1) + DaysInYear(y - 1)
RECURSIVE DaysBeforeMonth(_, _)
DaysBeforeMonth(y, m) == IF m <= 1 THEN 0 ELSE DaysBeforeMonth(y, m - 1) + DaysInMonth(y, m - 1)

RECURSIVE YearSplit(_, _)
YearSplit(d, y) == IF d < DaysInYear(y) THEN <<y, d>> ELSE YearSplit(d - DaysInYear(y), y + 1)
RECURSIVE MonthSplit(_, _, _)
MonthSplit(d, y, m) == IF d < DaysInMonth(y, m) THEN <<m, d + 1>> ELSE MonthSplit(d - DaysInMonth(y, m), y, m + 1)

\* A naive instant (minutes) as calendar fields, and back.
ToCivil(t) ==
    LET ys == YearSplit(t \div Day, EpochYear)
        ms == MonthSplit(ys[2], ys[1], 1)
    IN  [year |-> ys[1], month |-> ms[1], day |-> ms[2], minute |-> t % Day]
FromCivil(c) ==
    (DaysBeforeYear(c.year) + DaysBeforeMonth(c.year, c.month) + (c.day - 1)) * Day + c.minute

Min(a, b) == IF a <= b THEN a ELSE b

\* A month added without clamping the day: 31 January + 1 month is 3 March.
AddMonthUnclamped(t) ==
    LET c == ToCivil(t)
        y == IF c.month = 12 THEN c.year + 1 ELSE c.year
        m == IF c.month = 12 THEN 1 ELSE c.month + 1
    IN  FromCivil([year |-> y, month |-> m, day |-> c.day, minute |-> c.minute])

\* dt + relativedelta(months=1): the day is clamped to the target month's length.
AddMonth(t) ==
    LET c == ToCivil(t)
        y == IF c.month = 12 THEN c.year + 1 ELSE c.year
        m == IF c.month = 12 THEN 1 ELSE c.month + 1
    IN  FromCivil([year |-> y, month |-> m, day |-> Min(c.day, DaysInMonth(y, m)), minute |-> c.minute])
\* dt + relativedelta(years=1): 29 February is clamped to 28 February.
AddYear(t) ==
    LET c == ToCivil(t)
    IN  FromCivil([year |-> c.year + 1, month |-> c.month,
                   day |-> Min(c.day, DaysInMonth(c.year + 1, c.month)), minute |-> c.minute])

\* What stands for the ValueError("Unknown recurrence") that _next_occurrence
\* raises: no instant is negative.
ValueError == -1

\* _next_occurrence(remind_at, recurrence)
NextOccurrence(t, rec) ==
    CASE rec = "hourly" -> t + Hour
      [] rec = "daily" -> t + Day
      [] rec = "weekly" -> t + Week
      [] rec = "monthly" -> AddMonth(t)
      [] rec = "yearly" -> AddYear(t)
      [] OTHER -> ValueError

\* A catch-up that advances an overdue instant once and does not loop.
CatchUpOnce(dt, nw, rec) == IF dt <= nw THEN NextOccurrence(dt, rec) ELSE dt

\* The catch-up loop of load_pending_reminders: while next_dt <= now: advance.
RECURSIVE CatchUp(_, _, _)
CatchUp(dt, nw, rec) == IF dt <= nw THEN CatchUp(NextOccurrence(dt, rec), nw, rec) ELSE dt


\* ------------------------------------------------------------------ state
\* User 100 writes to the bot and owns reminders; user 200 only presses buttons
\* and calls the API with reminder ids, none of which are its own.
Users == {100, 200}
Writers == {100}
TzInputs == {"Asia/Yekaterinburg", "Mars/Phobos"}
SnoozeInputs == {5, 7}
\* 2026-01-31 09:00 UTC, the instant the first process start is observed.
Now0 == 30 * Day + 9 * Hour

VARIABLES
    now,        \* the clock: UTC minutes
    ticks,      \* how many times the clock has advanced (bounded by MaxTicks)
    restarts,   \* how many times the process was stopped (bounded by MaxRestarts)
    ops,        \* how many more updates and API requests the run handles
    running,    \* the bot, the API and the scheduler are up
    db,         \* the reminders table: a sequence of rows, id = index
    usettings,  \* the user_settings table, by user id
    jobs,       \* the scheduler's job store: records [id, run_date, tz, grace]
    inflight,   \* send_reminder coroutines past their guard read, before the send
    fsm,        \* the dispatcher's FSM storage, by user id
    last        \* the handler that ran last and what it answered / sent

vars == <<now, ticks, restarts, ops, running, db, usettings, jobs, inflight, fsm, last>>

\* Reminder(user_id, remind_at): the column defaults of the reminders table.
NewReminder(uid, at) ==
    [user_id |-> uid, remind_at |-> at, is_active |-> TRUE, is_confirmed |-> FALSE,
     is_snoozed |-> FALSE, message_id |-> None, recurrence |-> NoRec,
     recurrence_anchor |-> None]

NoSettings == [exists |-> FALSE, snooze_minutes |-> DEFAULT_SNOOZE_MINUTES, timezone |-> DEFAULT_TIMEZONE]
\* UserSettings(user_id, snooze_minutes=DEFAULT_SNOOZE_MINUTES, timezone=DEFAULT_TIMEZONE)
NewSettings == [exists |-> TRUE, snooze_minutes |-> DEFAULT_SNOOZE_MINUTES, timezone |-> DEFAULT_TIMEZONE]

\* A text message as the parsing pipeline sees it: whether _find_dot_ambiguity
\* finds an ambiguous dotted pair, whether _has_explicit_time holds, the instant
\* dateparser resolves the fragments to (None: no date found), and the instant
\* it resolves to once the dotted pair is rewritten as HH:MM.
NoText == [amb |-> FALSE, explicit |-> FALSE, dt |-> None, time_dt |-> None]

\* FSMContext: state plus the data keys the state's handlers read.
NoDialog == [state |-> "none", reminder_id |-> None, original_remind_at |-> None,
             tz_name |-> NoTz, remind_date |-> None, raw_text |-> NoText]

Ids == 1 .. MaxReminders
Exists(d, id) == id \in 1 .. Len(d)

\* What a handler reports: the operation, its reminder id and user, the answer it
\* gave, and the notifier calls it made.
Did(op, id, uid, res, sent, retracted, edited) ==
    [op |-> op, id |-> id, uid |-> uid, res |-> res, sent |-> sent,
     retracted |-> retracted, edited |-> edited]

\* ---------------------------------------------------------------- scheduler
\* add_job without replace_existing: an earlier job of the same id stays.
AddJobKeepingOld(js, id, run_date, tz, grace) ==
    js \cup {[id |-> id, run_date |-> run_date, tz |-> tz, grace |-> grace]}

\* scheduler.add_job(send_reminder, DateTrigger(timezone=tz, run_date=run_date),
\*                   id=f"reminder_{id}", replace_existing=True, misfire_grace_time=grace)
AddJob(js, id, run_date, tz, grace) ==
    {j \in js : j.id # id} \cup {[id |-> id, run_date |-> run_date, tz |-> tz, grace |-> grace]}

\* A cancel that empties the job store.
CancelEveryJob(js, id) == {}

\* _cancel_reminder_job(reminder_id)
CancelJob(js, id) == {j \in js : j.id # id}

\* schedule_reminder(reminder, tz)
ScheduleReminder(js, id, remind_at, tz) ==
    AddJob(js, id, remind_at, IF tz # NoTz THEN tz ELSE SettingsTimezone, MisfireGrace)

\* The UTC minute at which a job's trigger fires.
JobDue(j) == j.run_date - Off(j.tz)

\* pytz.timezone(us.timezone if us else settings.timezone)
UserTz(us, uid) == IF us[uid].exists THEN us[uid].timezone ELSE SettingsTimezone

\* A guard that only looks for the row.
DeliverableIfFound(d, id) == Exists(d, id)

\* send_reminder's guard: the row exists, is active and is not confirmed.
Deliverable(d, id) == Exists(d, id) /\ d[id].is_active /\ ~d[id].is_confirmed

\* ------------------------------------------------------------------ startup
\* load_pending_reminders: every active, unconfirmed row is registered again.
RECURSIVE LoadPending(_, _, _, _, _)
LoadPending(i, d, js, us, nw) ==
    IF i > Len(d) THEN [db |-> d, jobs |-> js]
    ELSE IF ~(d[i].is_active /\ ~d[i].is_confirmed) THEN LoadPending(i + 1, d, js, us, nw)
    ELSE
        LET r == d[i]
            user_tz == UserTz(us, r.user_id)
            lnow == NowTz(nw, user_tz)
        IN  IF r.remind_at <= lnow
            THEN IF r.recurrence # NoRec
                 THEN LET anchor == IF r.recurrence_anchor # None THEN r.recurrence_anchor ELSE r.remind_at
                          next_dt == CatchUp(anchor, lnow, r.recurrence)
                      IN  LoadPending(i + 1,
                                      [d EXCEPT ![i].remind_at = next_dt, ![i].recurrence_anchor = next_dt],
                                      ScheduleReminder(js, i, next_dt, user_tz), us, nw)
                 ELSE LoadPending(i + 1, d, AddJob(js, i, lnow, user_tz, DefaultMisfireGrace), us, nw)
            ELSE LoadPending(i + 1, d, ScheduleReminder(js, i, r.remind_at, user_tz), us, nw)

\* A start that begins polling without reading the reminders table.
StartupWithoutLoad ==
    /\ ~running
    /\ db' = db /\ jobs' = {}
    /\ running' = TRUE
    /\ inflight' = {}
    /\ fsm' = [u \in Users |-> NoDialog]
    /\ last' = Did("startup", None, None, "ok", FALSE, FALSE, FALSE)
    /\ UNCHANGED <<ops, now, ticks, restarts, usettings>>

\* on_startup: start_scheduler(), load_pending_reminders(), polling begins.
Startup ==
    /\ ~running
    /\ LET r == LoadPending(1, db, {}, usettings, now)
       IN  db' = r.db /\ jobs' = r.jobs
    /\ running' = TRUE
    /\ inflight' = {}
    /\ fsm' = [u \in Users |-> NoDialog]
    /\ last' = Did("startup", None, None, "ok", FALSE, FALSE, FALSE)
    /\ UNCHANGED <<ops, now, ticks, restarts, usettings>>

\* on_shutdown / process exit: the in-memory job store, the running coroutines
\* and the in-memory FSM storage are gone; the tables stay.
Shutdown ==
    /\ running
    /\ restarts < MaxRestarts
    /\ restarts' = restarts + 1
    /\ running' = FALSE
    /\ jobs' = {}
    /\ inflight' = {}
    /\ fsm' = [u \in Users |-> NoDialog]
    /\ last' = Did("shutdown", None, None, "ok", FALSE, FALSE, FALSE)
    /\ UNCHANGED <<ops, now, ticks, db, usettings>>

\* --------------------------------------------------------------------- clock
\* The clock advances.  While the process runs the scheduler wakes at the next
\* due job, so the clock never passes a due job, and a delivery in progress ends
\* within the minute.
TickSteps == {Hour, Day} \cup {JobDue(j) - now : j \in {k \in jobs : JobDue(k) > now}}
Tick(d) ==
    /\ ticks < MaxTicks
    /\ d > 0
    /\ running => /\ inflight = {}
                  /\ \A j \in jobs : now + d <= JobDue(j)
    /\ now' = now + d
    /\ ticks' = ticks + 1
    /\ last' = Did("tick", None, None, "ok", FALSE, FALSE, FALSE)
    /\ UNCHANGED <<ops, restarts, running, db, usettings, jobs, inflight, fsm>>

\* ------------------------------------------------------------------ delivery
\* A date job comes due: the scheduler removes it and starts send_reminder,
\* unless an instance of the same job id is still running (max_instances = 1).
\* send_reminder reads the row (guard) and the owner's settings.
Fire(j) ==
    /\ running
    /\ j \in jobs
    /\ JobDue(j) <= now
    /\ jobs' = jobs \ {j}
    /\ IF \E f \in inflight : f.id = j.id
       THEN /\ inflight' = inflight
            /\ last' = Did("fire", j.id, None, "skipped", FALSE, FALSE, FALSE)
       ELSE IF ~Deliverable(db, j.id)
       THEN /\ inflight' = inflight
            /\ last' = Did("fire", j.id, None, "noop", FALSE, FALSE, FALSE)
       ELSE LET r == db[j.id]
                us == usettings[r.user_id]
            IN  /\ inflight' = inflight \cup
                       {[id |-> j.id, message_id |-> r.message_id, is_snoozed |-> r.is_snoozed,
                         repeat_minutes |-> IF us.exists THEN us.snooze_minutes ELSE REMINDER_REPEAT_MINUTES,
                         tz |-> IF us.exists THEN us.timezone ELSE DEFAULT_TIMEZONE]}
                /\ last' = Did("fire", j.id, None, "started", FALSE, FALSE, FALSE)
    /\ UNCHANGED <<ops, now, ticks, restarts, running, db, usettings, fsm>>

\* The reference the notifier returns for a fresh message.
NewMessageId(old) == IF old = 1 THEN 2 ELSE 1

\* The send succeeds: the previous notification is retracted when one is
\* recorded, the new reference and is_snoozed = False are committed (an UPDATE
\* of the columns whose value differs from the one read at the guard), and the
\* re-prompt job is added.
DeliverOk(f) ==
    /\ running
    /\ f \in inflight
    /\ db' = [db EXCEPT ![f.id].message_id = NewMessageId(f.message_id),
                        ![f.id].is_snoozed = IF f.is_snoozed THEN FALSE ELSE @]
    /\ jobs' = AddJob(jobs, f.id, NowTz(now, f.tz) + f.repeat_minutes, f.tz, MisfireGrace)
    /\ inflight' = inflight \ {f}
    /\ last' = Did("deliver", f.id, None, "sent", TRUE, f.message_id # None, FALSE)
    /\ UNCHANGED <<ops, now, ticks, restarts, running, usettings, fsm>>

\* bot.send_message raises: the except clause logs and the coroutine ends.
DeliverFail(f) ==
    /\ running
    /\ f \in inflight
    /\ inflight' = inflight \ {f}
    /\ last' = Did("deliver", f.id, None, "failed", FALSE, f.message_id # None, FALSE)
    /\ UNCHANGED <<ops, now, ticks, restarts, running, db, usettings, jobs, fsm>>

\* A delivery that a failed retract ends: the error reaches the outer except
\* clause, nothing is sent, recorded or armed.
DeliverAbortsOnRetract(f) ==
    /\ running
    /\ f \in inflight
    /\ f.message_id # None
    /\ inflight' = inflight \ {f}
    /\ last' = Did("deliver", f.id, None, "failed", FALSE, FALSE, FALSE)
    /\ UNCHANGED <<ops, now, ticks, restarts, running, db, usettings, jobs, fsm>>

\* bot.delete_message raises for the recorded notification: the inner except
\* clause passes, the previous notification stays in the chat, and the send,
\* the commit and the re-prompt job follow as in a delivery that retracted.
DeliverRetractFailed(f) ==
    /\ running
    /\ f \in inflight
    /\ f.message_id # None
    /\ db' = [db EXCEPT ![f.id].message_id = NewMessageId(f.message_id),
                        ![f.id].is_snoozed = IF f.is_snoozed THEN FALSE ELSE @]
    /\ jobs' = AddJob(jobs, f.id, NowTz(now, f.tz) + f.repeat_minutes, f.tz, MisfireGrace)
    /\ inflight' = inflight \ {f}
    /\ last' = Did("deliver", f.id, None, "sent", TRUE, FALSE, FALSE)
    /\ UNCHANGED <<ops, now, ticks, restarts, running, usettings, fsm>>


\* An update or an API request is handled while the process runs.
UserOp == running /\ ops > 0 /\ ops' = ops - 1

\* An answer that tells a foreign reminder from a missing one.
NotFoundLeaky(op, id, uid) ==
    /\ last' = Did(op, id, uid, IF Exists(db, id) THEN "forbidden" ELSE "not_found", FALSE, FALSE, FALSE)
    /\ UNCHANGED <<now, ticks, restarts, running, db, usettings, jobs, inflight, fsm>>

\* ------------------------------------------------------- callback handlers
\* The answer of every handler to a reminder id that is missing or not the
\* caller's: callback.answer("Напоминание не найдено.", show_alert=True).
NotFound(op, id, uid) ==
    /\ last' = Did(op, id, uid, "not_found", FALSE, FALSE, FALSE)
    /\ UNCHANGED <<now, ticks, restarts, running, db, usettings, jobs, inflight, fsm>>

\* A lookup by id alone, without the comparison of user_id.
OwnedByAnyone(d, id, uid) == Exists(d, id)

\* session.get(Reminder, id) returned a row and its user_id is the caller's.
Owned(d, id, uid) == Exists(d, id) /\ d[id].user_id = uid

\* handle_reminder_callback, action "done"
Done(uid, id) ==
    /\ UserOp
    /\ IF ~Owned(db, id, uid) THEN NotFound("done", id, uid)
       ELSE /\ db' = [db EXCEPT ![id].is_confirmed = TRUE, ![id].is_active = FALSE]
            /\ jobs' = CancelJob(jobs, id)
            /\ last' = Did("done", id, uid, "ok", FALSE, FALSE, TRUE)
            /\ UNCHANGED <<now, ticks, restarts, running, usettings, inflight, fsm>>

\* A move of remind_at that leaves is_confirmed as it was.
MovedKeepingConfirmed(r, at) ==
    [r EXCEPT !.remind_at = at, !.is_snoozed = TRUE, !.message_id = None]

\* A move of remind_at that takes the anchor along.
MovedWithAnchor(r, at) ==
    [r EXCEPT !.remind_at = at, !.is_confirmed = FALSE, !.is_snoozed = TRUE, !.message_id = None,
              !.recurrence_anchor = at]

\* The fields every move of remind_at writes.
Moved(r, at) ==
    [r EXCEPT !.remind_at = at, !.is_confirmed = FALSE, !.is_snoozed = TRUE, !.message_id = None]

\* handle_reminder_callback, action "snooze"
Snooze(uid, id) ==
    /\ UserOp
    /\ IF ~Owned(db, id, uid) THEN NotFound("snooze", id, uid)
       ELSE LET user_tz == UserTz(usettings, uid)
                at == NowTz(now, user_tz) + Hour
            IN  /\ db' = [db EXCEPT ![id] = Moved(@, at)]
                /\ jobs' = AddJob(CancelJob(jobs, id), id, at, user_tz, MisfireGrace)
                /\ last' = Did("snooze", id, uid, "ok", FALSE, FALSE, TRUE)
                /\ UNCHANGED <<now, ticks, restarts, running, usettings, inflight, fsm>>

\* A snooze by one day that always adds a day to the old remind_at.
SnoozeDayNoFallback(uid, id) ==
    /\ UserOp
    /\ IF ~Owned(db, id, uid) THEN NotFound("snooze_day", id, uid)
       ELSE LET user_tz == UserTz(usettings, uid)
                new_time == db[id].remind_at + Day
            IN  /\ db' = [db EXCEPT ![id] = Moved(@, new_time)]
                /\ jobs' = AddJob(CancelJob(jobs, id), id, new_time, user_tz, MisfireGrace)
                /\ last' = Did("snooze_day", id, uid, "ok", FALSE, FALSE, TRUE)
                /\ UNCHANGED <<now, ticks, restarts, running, usettings, inflight, fsm>>

\* handle_snooze_day
SnoozeDay(uid, id) ==
    /\ UserOp
    /\ IF ~Owned(db, id, uid) THEN NotFound("snooze_day", id, uid)
       ELSE LET user_tz == UserTz(usettings, uid)
                plus == db[id].remind_at + Day
                new_time == IF plus <= NowTz(now, user_tz) THEN NowTz(now, user_tz) + Day ELSE plus
            IN  /\ db' = [db EXCEPT ![id] = Moved(@, new_time)]
                /\ jobs' = AddJob(CancelJob(jobs, id), id, new_time, user_tz, MisfireGrace)
                /\ last' = Did("snooze_day", id, uid, "ok", FALSE, FALSE, TRUE)
                /\ UNCHANGED <<now, ticks, restarts, running, usettings, inflight, fsm>>

\* handle_reschedule_start
RescheduleStart(uid, id) ==
    /\ UserOp
    /\ IF ~Owned(db, id, uid) THEN NotFound("reschedule_start", id, uid)
       ELSE /\ jobs' = CancelJob(jobs, id)
            /\ fsm' = [fsm EXCEPT ![uid] =
                         [NoDialog EXCEPT !.state = "waiting_for_reschedule",
                                          !.reminder_id = id,
                                          !.original_remind_at = db[id].remind_at,
                                          !.tz_name = UserTz(usettings, uid)]]
            /\ last' = Did("reschedule_start", id, uid, "ok", FALSE, FALSE, TRUE)
            /\ UNCHANGED <<now, ticks, restarts, running, db, usettings, inflight>>

\* What the user types in the reschedule dialog, as dateparser resolves it in
\* the dialog's timezone: nothing, an hour ago, two hours from now.
RescheduleInputs == {[ok |-> FALSE, off |-> 0], [ok |-> TRUE, off |-> -Hour], [ok |-> TRUE, off |-> 2 * Hour]}

\* A reschedule input handler that accepts any instant dateparser resolves.
RescheduleInputAnyInstant(uid, inp) ==
    /\ UserOp
    /\ fsm[uid].state = "waiting_for_reschedule"
    /\ LET id == fsm[uid].reminder_id
           tz == fsm[uid].tz_name
           dt == IF inp.ok THEN NowTz(now, tz) + inp.off ELSE None
       IN  IF dt = None
           THEN /\ last' = Did("reschedule_input", id, uid, "retry", FALSE, FALSE, FALSE)
                /\ UNCHANGED <<db, jobs, fsm>>
           ELSE IF ~Owned(db, id, uid)
           THEN /\ fsm' = [fsm EXCEPT ![uid] = NoDialog]
                /\ last' = Did("reschedule_input", id, uid, "not_found", FALSE, FALSE, FALSE)
                /\ UNCHANGED <<db, jobs>>
           ELSE /\ db' = [db EXCEPT ![id] = Moved(@, dt)]
                /\ jobs' = AddJob(jobs, id, dt, tz, MisfireGrace)
                /\ fsm' = [fsm EXCEPT ![uid] = NoDialog]
                /\ last' = Did("reschedule_input", id, uid, "ok", FALSE, FALSE, FALSE)
    /\ UNCHANGED <<now, ticks, restarts, running, usettings, inflight>>

\* A reschedule input handler that moves the row and arms no timer.
RescheduleInputUnarmed(uid, inp) ==
    /\ UserOp
    /\ fsm[uid].state = "waiting_for_reschedule"
    /\ LET id == fsm[uid].reminder_id
           tz == fsm[uid].tz_name
           dt == IF inp.ok THEN NowTz(now, tz) + inp.off ELSE None
       IN  IF dt = None \/ dt <= NowTz(now, tz)
           THEN /\ last' = Did("reschedule_input", id, uid, "retry", FALSE, FALSE, FALSE)
                /\ UNCHANGED <<db, jobs, fsm>>
           ELSE IF ~Owned(db, id, uid)
           THEN /\ fsm' = [fsm EXCEPT ![uid] = NoDialog]
                /\ last' = Did("reschedule_input", id, uid, "not_found", FALSE, FALSE, FALSE)
                /\ UNCHANGED <<db, jobs>>
           ELSE /\ db' = [db EXCEPT ![id] = Moved(@, dt)]
                /\ jobs' = jobs
                /\ fsm' = [fsm EXCEPT ![uid] = NoDialog]
                /\ last' = Did("reschedule_input", id, uid, "ok", FALSE, FALSE, FALSE)
    /\ UNCHANGED <<now, ticks, restarts, running, usettings, inflight>>

\* handle_reschedule_input
RescheduleInput(uid, inp) ==
    /\ UserOp
    /\ fsm[uid].state = "waiting_for_reschedule"
    /\ LET id == fsm[uid].reminder_id
           tz == fsm[uid].tz_name
           dt == IF inp.ok THEN NowTz(now, tz) + inp.off ELSE None
       IN  IF dt = None \/ dt <= NowTz(now, tz)
           THEN /\ last' = Did("reschedule_input", id, uid, "retry", FALSE, FALSE, FALSE)
                /\ UNCHANGED <<db, jobs, fsm>>
           ELSE IF ~Owned(db, id, uid)
           THEN /\ fsm' = [fsm EXCEPT ![uid] = NoDialog]
                /\ last' = Did("reschedule_input", id, uid, "not_found", FALSE, FALSE, FALSE)
                /\ UNCHANGED <<db, jobs>>
           ELSE /\ db' = [db EXCEPT ![id] = Moved(@, dt)]
                /\ jobs' = AddJob(jobs, id, dt, tz, MisfireGrace)
                /\ fsm' = [fsm EXCEPT ![uid] = NoDialog]
                /\ last' = Did("reschedule_input", id, uid, "ok", FALSE, FALSE, FALSE)
    /\ UNCHANGED <<now, ticks, restarts, running, usettings, inflight>>

\* A /cancel that only clears the dialog state.
CmdCancelOnlyClears(uid) ==
    /\ UserOp
    /\ fsm[uid].state \notin {"waiting_for_time", "waiting_for_delete_id"}
    /\ IF fsm[uid].state = "none"
       THEN /\ last' = Did("cancel", None, uid, "nothing", FALSE, FALSE, FALSE)
            /\ UNCHANGED <<jobs, fsm>>
       ELSE /\ jobs' = jobs
            /\ fsm' = [fsm EXCEPT ![uid] = NoDialog]
            /\ last' = Did("cancel",
                            IF fsm[uid].state = "waiting_for_reschedule" THEN fsm[uid].reminder_id ELSE None,
                            uid, "ok", FALSE, FALSE, FALSE)
    /\ UNCHANGED <<now, ticks, restarts, running, db, usettings, inflight>>

\* cmd_cancel.  In waiting_for_time and waiting_for_delete_id the state's own
\* text handler is registered before cmd_cancel and takes the message.
CmdCancel(uid) ==
    /\ UserOp
    /\ fsm[uid].state \notin {"waiting_for_time", "waiting_for_delete_id"}
    /\ IF fsm[uid].state = "none"
       THEN /\ last' = Did("cancel", None, uid, "nothing", FALSE, FALSE, FALSE)
            /\ UNCHANGED <<jobs, fsm>>
       ELSE /\ IF /\ fsm[uid].state = "waiting_for_reschedule"
                  /\ fsm[uid].reminder_id # None
                  /\ fsm[uid].original_remind_at # None
               THEN LET tz == fsm[uid].tz_name
                        orig == fsm[uid].original_remind_at
                        run_date == IF orig > NowTz(now, tz) THEN orig ELSE NowTz(now, tz)
                    IN  jobs' = AddJob(jobs, fsm[uid].reminder_id, run_date, tz, MisfireGrace)
               ELSE jobs' = jobs
            /\ fsm' = [fsm EXCEPT ![uid] = NoDialog]
            /\ last' = Did("cancel",
                            IF fsm[uid].state = "waiting_for_reschedule" THEN fsm[uid].reminder_id ELSE None,
                            uid, "ok", FALSE, FALSE, FALSE)
    /\ UNCHANGED <<now, ticks, restarts, running, db, usettings, inflight>>

\* ------------------------------------------------------------------- delete
\* A text for which int(raw_id) raises ValueError.
NotANumber == -1

\* _do_delete(message, raw_id, state)
DoDelete(op, uid, raw_id) ==
    IF raw_id = NotANumber
    THEN /\ last' = Did(op, None, uid, "bad_id", FALSE, FALSE, FALSE)
         /\ UNCHANGED <<db, fsm>>
    ELSE IF ~Owned(db, raw_id, uid)
    THEN /\ fsm' = [fsm EXCEPT ![uid] = NoDialog]
         /\ last' = Did(op, raw_id, uid, "not_found", FALSE, FALSE, FALSE)
         /\ UNCHANGED db
    ELSE /\ db' = [db EXCEPT ![raw_id].is_active = FALSE]
         /\ fsm' = [fsm EXCEPT ![uid] = NoDialog]
         /\ last' = Did(op, raw_id, uid, "ok", FALSE, FALSE, FALSE)

\* _fetch_reminders(user_id) / the query of cmd_delete
Pending(d, uid) == {i \in 1 .. Len(d) : d[i].user_id = uid /\ d[i].is_active /\ ~d[i].is_confirmed}

\* cmd_delete: "/delete" (arg None) asks for an id, "/delete <id>" deletes.  In
\* waiting_for_time the text goes to handle_time_input, registered earlier.
CmdDelete(uid, arg) ==
    /\ UserOp
    /\ fsm[uid].state # "waiting_for_time"
    /\ IF arg = None
       THEN IF Pending(db, uid) = {}
            THEN /\ last' = Did("delete", None, uid, "empty", FALSE, FALSE, FALSE)
                 /\ UNCHANGED <<db, fsm>>
            ELSE /\ fsm' = [fsm EXCEPT ![uid].state = "waiting_for_delete_id"]
                 /\ last' = Did("delete", None, uid, "ask", FALSE, FALSE, FALSE)
                 /\ UNCHANGED db
       ELSE DoDelete("delete", uid, arg)
    /\ UNCHANGED <<now, ticks, restarts, running, usettings, jobs, inflight>>

\* handle_delete_id_input
DeleteIdInput(uid, raw_id) ==
    /\ UserOp
    /\ fsm[uid].state = "waiting_for_delete_id"
    /\ DoDelete("delete_id", uid, raw_id)
    /\ UNCHANGED <<now, ticks, restarts, running, usettings, jobs, inflight>>

\* handle_list_delete: the delete button of /list
ListDelete(uid, id) ==
    /\ UserOp
    /\ IF ~Owned(db, id, uid) THEN NotFound("list_delete", id, uid)
       ELSE /\ db' = [db EXCEPT ![id].is_active = FALSE]
            /\ last' = Did("list_delete", id, uid, "ok", FALSE, FALSE, TRUE)
            /\ UNCHANGED <<now, ticks, restarts, running, usettings, jobs, inflight, fsm>>


\* ------------------------------------------------------------------- create
\* _shift_to_future(dt, now): a past instant moves one year on
\* (dt.replace(year=dt.year + 1), which raises for 29 February).
ShiftRaises(dt, nw) ==
    /\ dt <= nw
    /\ ToCivil(dt).month = 2 /\ ToCivil(dt).day = 29
    /\ ~IsLeap(ToCivil(dt).year + 1)
ShiftToFuture(dt, nw) ==
    IF dt <= nw THEN FromCivil([ToCivil(dt) EXCEPT !.year = @ + 1]) ELSE dt

\* _save_reminder: the row is committed, its job is scheduled, the dialog ends.
SaveReminder(op, uid, remind_at, user_tz) ==
    /\ db' = Append(db, NewReminder(uid, remind_at))
    /\ jobs' = ScheduleReminder(jobs, Len(db) + 1, remind_at, user_tz)
    /\ fsm' = [fsm EXCEPT ![uid] = NoDialog]
    /\ last' = Did(op, Len(db) + 1, uid, "created", FALSE, FALSE, FALSE)

\* A pipeline that resolves the date first and looks for an ambiguous pair
\* only when the text carries an explicit time.
HandleReminderTextResolvingFirst(op, uid, raw, f) ==
    LET user_tz == UserTz(usettings, uid)
        lnow == NowTz(now, user_tz)
    IN  IF raw.dt # None /\ ShiftRaises(raw.dt, lnow)
        THEN /\ fsm' = f
             /\ last' = Did(op, None, uid, "error", FALSE, FALSE, FALSE)
             /\ UNCHANGED <<db, jobs>>
        ELSE IF raw.dt = None
        THEN /\ fsm' = f
             /\ last' = Did(op, None, uid, "unparseable", FALSE, FALSE, FALSE)
             /\ UNCHANGED <<db, jobs>>
        ELSE LET remind_at == ShiftToFuture(raw.dt, lnow)
             IN  IF ~raw.explicit
                 THEN /\ fsm' = [f EXCEPT ![uid] =
                                   [NoDialog EXCEPT !.state = "waiting_for_time",
                                                    !.remind_date = remind_at - (remind_at % Day),
                                                    !.tz_name = user_tz]]
                      /\ last' = Did(op, None, uid, "need_time", FALSE, FALSE, FALSE)
                      /\ UNCHANGED <<db, jobs>>
                 ELSE IF raw.amb
                 THEN /\ fsm' = [f EXCEPT ![uid] =
                                   [NoDialog EXCEPT !.state = "waiting_for_dot_clarification", !.raw_text = raw]]
                      /\ last' = Did(op, None, uid, "clarify", FALSE, FALSE, FALSE)
                      /\ UNCHANGED <<db, jobs>>
                 ELSE IF remind_at <= lnow
                 THEN /\ fsm' = f
                      /\ last' = Did(op, None, uid, "past", FALSE, FALSE, FALSE)
                      /\ UNCHANGED <<db, jobs>>
                 ELSE SaveReminder(op, uid, remind_at, user_tz)

\* _handle_reminder_text(message, raw, state, user_id); f is the FSM storage
\* the call starts from (handle_dot_clarification clears the state first).
HandleReminderText(op, uid, raw, f) ==
    IF raw.amb
    THEN /\ fsm' = [f EXCEPT ![uid] =
                      [NoDialog EXCEPT !.state = "waiting_for_dot_clarification", !.raw_text = raw]]
         /\ last' = Did(op, None, uid, "clarify", FALSE, FALSE, FALSE)
         /\ UNCHANGED <<db, jobs>>
    ELSE LET user_tz == UserTz(usettings, uid)
             lnow == NowTz(now, user_tz)
         IN  IF raw.dt # None /\ ShiftRaises(raw.dt, lnow)
             THEN /\ fsm' = f
                  /\ last' = Did(op, None, uid, "error", FALSE, FALSE, FALSE)
                  /\ UNCHANGED <<db, jobs>>
             ELSE IF raw.dt = None
             THEN /\ fsm' = f
                  /\ last' = Did(op, None, uid, "unparseable", FALSE, FALSE, FALSE)
                  /\ UNCHANGED <<db, jobs>>
             ELSE LET remind_at == ShiftToFuture(raw.dt, lnow)
                  IN  IF ~raw.explicit
                      THEN /\ fsm' = [f EXCEPT ![uid] =
                                        [NoDialog EXCEPT !.state = "waiting_for_time",
                                                         !.remind_date = remind_at - (remind_at % Day),
                                                         !.tz_name = user_tz]]
                           /\ last' = Did(op, None, uid, "need_time", FALSE, FALSE, FALSE)
                           /\ UNCHANGED <<db, jobs>>
                      ELSE IF remind_at <= lnow
                      THEN /\ fsm' = f
                           /\ last' = Did(op, None, uid, "past", FALSE, FALSE, FALSE)
                           /\ UNCHANGED <<db, jobs>>
                      ELSE SaveReminder(op, uid, remind_at, user_tz)

\* The texts a user sends, by what the pipeline finds in them: date and time in
\* the future, a date without a time, an ambiguous dotted pair, a date more than
\* a year in the past.
CreateTexts(lnow) ==
    { [amb |-> FALSE, explicit |-> TRUE, dt |-> lnow + Hour, time_dt |-> None],
      [amb |-> FALSE, explicit |-> FALSE, dt |-> lnow + Day, time_dt |-> None],
      [amb |-> TRUE, explicit |-> FALSE, dt |-> lnow + Day, time_dt |-> lnow + Hour],
      [amb |-> FALSE, explicit |-> TRUE, dt |-> lnow - 800 * Day, time_dt |-> None] }

\* A top-level create handler without StateFilter(None): it takes a text in
\* any dialog state.
RemindFromTextAnyState(uid, raw) ==
    /\ UserOp
    /\ raw.dt # None
    /\ Len(db) < MaxReminders
    /\ HandleReminderText("create", uid, raw, fsm)
    /\ UNCHANGED <<now, ticks, restarts, running, usettings, inflight>>

\* remind_from_text: StateFilter(None), F.text, HasDateFilter()
RemindFromText(uid, raw) ==
    /\ UserOp
    /\ fsm[uid].state = "none"
    /\ raw.dt # None
    /\ Len(db) < MaxReminders
    /\ HandleReminderText("create", uid, raw, fsm)
    /\ UNCHANGED <<now, ticks, restarts, running, usettings, inflight>>

\* handle_dot_clarification: "clarify:time" rewrites the pair as HH:MM,
\* "clarify:date" leaves the text as it was; the pipeline runs again.
DotClarification(uid, choice) ==
    /\ UserOp
    /\ fsm[uid].state = "waiting_for_dot_clarification"
    /\ Len(db) < MaxReminders
    /\ LET raw == fsm[uid].raw_text
           new_raw == IF choice = "clarify:time"
                      THEN [amb |-> FALSE, explicit |-> TRUE, dt |-> raw.time_dt, time_dt |-> None]
                      ELSE raw
       IN  HandleReminderText("clarify", uid, new_raw, [fsm EXCEPT ![uid] = NoDialog])
    /\ UNCHANGED <<now, ticks, restarts, running, usettings, inflight>>

\* What the user types when asked for a time: dateparser resolves date + text
\* to nothing (None) or to the held date at that time of day (10:00, 13:00).
TimeInputs == {None, 10 * Hour, 13 * Hour}

\* A time input handler that saves whatever instant the date and time make.
TimeInputAnyInstant(uid, tod) ==
    /\ UserOp
    /\ fsm[uid].state = "waiting_for_time"
    /\ Len(db) < MaxReminders
    /\ LET user_tz == fsm[uid].tz_name
           dt == fsm[uid].remind_date + tod
       IN  IF tod = None
           THEN /\ last' = Did("time_input", None, uid, "retry", FALSE, FALSE, FALSE)
                /\ UNCHANGED <<db, jobs, fsm>>
           ELSE SaveReminder("time_input", uid, dt, user_tz)
    /\ UNCHANGED <<now, ticks, restarts, running, usettings, inflight>>

\* handle_time_input
TimeInput(uid, tod) ==
    /\ UserOp
    /\ fsm[uid].state = "waiting_for_time"
    /\ Len(db) < MaxReminders
    /\ LET user_tz == fsm[uid].tz_name
           dt == fsm[uid].remind_date + tod
       IN  IF tod = None
           THEN /\ last' = Did("time_input", None, uid, "retry", FALSE, FALSE, FALSE)
                /\ UNCHANGED <<db, jobs, fsm>>
           ELSE IF dt <= NowTz(now, user_tz)
           THEN /\ last' = Did("time_input", None, uid, "past", FALSE, FALSE, FALSE)
                /\ UNCHANGED <<db, jobs, fsm>>
           ELSE SaveReminder("time_input", uid, dt, user_tz)
    /\ UNCHANGED <<now, ticks, restarts, running, usettings, inflight>>

\* ---------------------------------------------------------------------- API
\* POST /reminders: the row is added; no job is scheduled.
ApiCreate(uid, remind_at) ==
    /\ UserOp
    /\ Len(db) < MaxReminders
    /\ db' = Append(db, NewReminder(uid, remind_at))
    /\ last' = Did("api_create", Len(db) + 1, uid, "created", FALSE, FALSE, FALSE)
    /\ UNCHANGED <<now, ticks, restarts, running, usettings, jobs, inflight, fsm>>

\* DELETE /reminders/{reminder_id}?user_id=
ApiDelete(uid, id) ==
    /\ UserOp
    /\ IF ~Owned(db, id, uid) THEN NotFound("api_delete", id, uid)
       ELSE /\ db' = [db EXCEPT ![id].is_active = FALSE]
            /\ last' = Did("api_delete", id, uid, "ok", FALSE, FALSE, FALSE)
            /\ UNCHANGED <<now, ticks, restarts, running, usettings, jobs, inflight, fsm>>

\* ----------------------------------------------------------------- settings
\* _get_or_create_settings(user_id, session)
GetOrCreateSettings(us, uid) == IF us[uid].exists THEN us ELSE [us EXCEPT ![uid] = NewSettings]

\* A snooze setting handler that stores any number of minutes.
SnoozeSettingUnchecked(uid, minutes) ==
    /\ UserOp
    /\ usettings' = [GetOrCreateSettings(usettings, uid) EXCEPT ![uid].snooze_minutes = minutes]
    /\ last' = Did("settings_snooze", None, uid, "ok", FALSE, FALSE, TRUE)
    /\ UNCHANGED <<now, ticks, restarts, running, db, jobs, inflight, fsm>>

\* handle_snooze_setting
SnoozeSetting(uid, minutes) ==
    /\ UserOp
    /\ IF minutes \notin SNOOZE_OPTIONS
       THEN /\ last' = Did("settings_snooze", None, uid, "rejected", FALSE, FALSE, FALSE)
            /\ UNCHANGED usettings
       ELSE /\ usettings' = [GetOrCreateSettings(usettings, uid) EXCEPT ![uid].snooze_minutes = minutes]
            /\ last' = Did("settings_snooze", None, uid, "ok", FALSE, FALSE, TRUE)
    /\ UNCHANGED <<now, ticks, restarts, running, db, jobs, inflight, fsm>>

\* handle_timezone_setting
TimezoneSetting(uid, tz_id) ==
    /\ UserOp
    /\ IF tz_id \notin VALID_TZ_IDS
       THEN /\ last' = Did("settings_tz", None, uid, "rejected", FALSE, FALSE, FALSE)
            /\ UNCHANGED usettings
       ELSE /\ usettings' = [GetOrCreateSettings(usettings, uid) EXCEPT ![uid].timezone = tz_id]
            /\ last' = Did("settings_tz", None, uid, "ok", FALSE, FALSE, TRUE)
    /\ UNCHANGED <<now, ticks, restarts, running, db, jobs, inflight, fsm>>

\* -------------------------------------------------------------- the program
\* The rows the table may hold when the process is first started: none, or one
\* reminder of user 100, due an hour from now or three days ago, not recurring,
\* daily or monthly.
InitRows ==
    { [NewReminder(100, NowTz(Now0, SettingsTimezone) + off)
         EXCEPT !.recurrence = rec,
                !.recurrence_anchor = IF rec = NoRec THEN None
                                      ELSE NowTz(Now0, SettingsTimezone) + off]
      : off \in {Hour, -(3 * Day)}, rec \in {NoRec, "daily", "monthly"} }

Init ==
    /\ now = Now0
    /\ ticks = 0
    /\ ops = MaxOps
    /\ restarts = 0
    /\ running = FALSE
    /\ db \in {<<>>} \cup {<<r>> : r \in InitRows}
    /\ usettings = [u \in Users |-> NoSettings]
    /\ jobs = {}
    /\ inflight = {}
    /\ fsm = [u \in Users |-> NoDialog]
    /\ last = Did("init", None, None, "ok", FALSE, FALSE, FALSE)

Next ==
    \/ Startup
    \/ Shutdown
    \/ \E d \in TickSteps : Tick(d)
    \/ \E j \in jobs : Fire(j)
    \/ \E f \in inflight : DeliverOk(f)
    \/ \E f \in inflight : DeliverFail(f)
    \/ \E f \in inflight : DeliverRetractFailed(f)
    \/ \E u \in Users, i \in Ids : Done(u, i)
    \/ \E u \in Users, i \in Ids : Snooze(u, i)
    \/ \E u \in Users, i \in Ids : SnoozeDay(u, i)
    \/ \E u \in Users, i \in Ids : RescheduleStart(u, i)
    \/ \E u \in Writers, inp \in RescheduleInputs : RescheduleInput(u, inp)
    \/ \E u \in Writers : CmdCancel(u)
    \/ \E u \in Users, a \in {None, NotANumber} \cup Ids : CmdDelete(u, a)
    \/ \E u \in Writers, a \in {NotANumber} \cup Ids : DeleteIdInput(u, a)
    \/ \E u \in Users, i \in Ids : ListDelete(u, i)
    \/ \E u \in Writers : \E raw \in CreateTexts(NowTz(now, UserTz(usettings, u))) : RemindFromText(u, raw)
    \/ \E u \in Writers, c \in {"clarify:time", "clarify:date"} : DotClarification(u, c)
    \/ \E u \in Writers, t \in TimeInputs : TimeInput(u, t)
    \/ \E u \in Writers : ApiCreate(u, NowTz(now, SettingsTimezone) + Hour)
    \/ \E u \in Users, i \in Ids : ApiDelete(u, i)
    \/ \E u \in Writers, m \in SnoozeInputs : SnoozeSetting(u, m)
    \/ \E u \in Writers, z \in TzInputs : TimezoneSetting(u, z)

Spec == Init /\ [][Next]_vars

\* ------------------------------------------------- delivery without the user
\* The process, the clock, the scheduler and the notifier alone, with the REST
\* API creating reminders and every send succeeding.  The process is started
\* whenever it is down, the clock advances, a due job fires and a send returns.
DispatchNext ==
    \/ Startup
    \/ Shutdown
    \/ \E d \in TickSteps : Tick(d)
    \/ \E j \in jobs : Fire(j)
    \/ \E f \in inflight : DeliverOk(f)
    \/ \E u \in Writers : ApiCreate(u, NowTz(now, SettingsTimezone) + Hour)

DispatchSpec ==
    /\ Init
    /\ [][DispatchNext]_vars
    /\ WF_vars(Startup)
    /\ WF_vars(\E d \in TickSteps : Tick(d))
    /\ WF_vars(\E j \in jobs : Fire(j))
    /\ WF_vars(\E f \in inflight : DeliverOk(f))

\* The same without the API, and with sends that may fail: nobody acts on a
\* reminder.
ChainNext ==
    \/ Startup
    \/ Shutdown
    \/ \E d \in TickSteps : Tick(d)
    \/ \E j \in jobs : Fire(j)
    \/ \E f \in inflight : DeliverOk(f)
    \/ \E f \in inflight : DeliverFail(f)

ChainSpec ==
    /\ Init
    /\ [][ChainNext]_vars
    /\ WF_vars(Startup)
    /\ WF_vars(\E d \in TickSteps : Tick(d))
    /\ WF_vars(\E j \in jobs : Fire(j))
    /\ WF_vars(\E f \in inflight : DeliverOk(f) \/ DeliverFail(f))

\* The create flow alone, with one more request, so that a settings change can
\* fall between the two messages of a dialog: texts, the answers to the two
\* prompts, the timezone setting and the clock.
CreateInit ==
    /\ now = Now0
    /\ ticks = 0
    /\ ops = MaxCreateOps
    /\ restarts = 0
    /\ running = FALSE
    /\ db \in {<<>>} \cup {<<r>> : r \in InitRows}
    /\ usettings = [u \in Users |-> NoSettings]
    /\ jobs = {}
    /\ inflight = {}
    /\ fsm = [u \in Users |-> NoDialog]
    /\ last = Did("init", None, None, "ok", FALSE, FALSE, FALSE)

CreateNext ==
    \/ Startup
    \/ \E d \in TickSteps : Tick(d)
    \/ \E u \in Writers : \E raw \in CreateTexts(NowTz(now, UserTz(usettings, u))) : RemindFromText(u, raw)
    \/ \E u \in Writers, c \in {"clarify:time", "clarify:date"} : DotClarification(u, c)
    \/ \E u \in Writers, t \in TimeInputs : TimeInput(u, t)
    \/ \E u \in Writers, z \in TzInputs : TimezoneSetting(u, z)

CreateSpec == CreateInit /\ [][CreateNext]_vars

\* _next_occurrence on its own: a reminder row with one of the instants and
\* kinds below is advanced, call after call, as the catch-up loop of
\* load_pending_reminders and the tests of TestNextOccurrence call it.
At(y, m, d, hh, mm) == FromCivil([year |-> y, month |-> m, day |-> d, minute |-> hh * Hour + mm])

AdvanceInstants ==
    { At(2026, 3, 15, 10, 0), At(2026, 1, 31, 10, 0), At(2026, 1, 29, 10, 0),
      At(2026, 8, 31, 0, 0), At(2026, 12, 31, 23, 30), At(2028, 1, 31, 10, 0),
      At(2028, 2, 29, 10, 0), At(2027, 11, 30, 23, 59) }

AdvanceKinds == Recurrences \cup {"biweekly"}

AdvanceInit ==
    /\ now = Now0
    /\ ticks = 0
    /\ ops = MaxAdvances
    /\ restarts = 0
    /\ running = FALSE
    /\ db \in {<<[NewReminder(100, t) EXCEPT !.recurrence = rec, !.recurrence_anchor = t]>> :
                   t \in AdvanceInstants, rec \in AdvanceKinds}
    /\ usettings = [u \in Users |-> NoSettings]
    /\ jobs = {}
    /\ inflight = {}
    /\ fsm = [u \in Users |-> NoDialog]
    /\ last = Did("init", None, None, "ok", FALSE, FALSE, FALSE)

\* next_dt = _next_occurrence(next_dt, reminder.recurrence)
CallNextOccurrence ==
    /\ ops > 0 /\ ops' = ops - 1
    /\ LET next_dt == NextOccurrence(db[1].remind_at, db[1].recurrence)
       IN  IF next_dt = ValueError
           THEN /\ last' = Did("next_occurrence", 1, None, "error", FALSE, FALSE, FALSE)
                /\ UNCHANGED db
           ELSE /\ db' = [db EXCEPT ![1].remind_at = next_dt]
                /\ last' = Did("next_occurrence", 1, None, "ok", FALSE, FALSE, FALSE)
    /\ UNCHANGED <<now, ticks, restarts, running, usettings, jobs, inflight, fsm>>

AdvanceNext == CallNextOccurrence

AdvanceSpec == AdvanceInit /\ [][AdvanceNext]_vars

\* ------------------------------------------------------------ text parsing
\* A text is a sequence of one-character strings.  "v" stands for the
\* preposition before an hour ("at"), "x" for a letter that is part of no
\* time word; the characters outside a text are not word characters.
IsDigit(c) == c \in {"0", "1", "2", "3", "4", "5", "6", "7", "8", "9"}
DigitVal(c) ==
    CASE c = "0" -> 0 [] c = "1" -> 1 [] c = "2" -> 2 [] c = "3" -> 3 [] c = "4" -> 4
      [] c = "5" -> 5 [] c = "6" -> 6 [] c = "7" -> 7 [] c = "8" -> 8 [] c = "9" -> 9
IsWord(c) == IsDigit(c) \/ c \in {"x", "v"}
CharAt(s, i) == IF i \in 1 .. Len(s) THEN s[i] ELSE " "
\* \b before position i
WordBoundary(s, i) == IsWord(CharAt(s, i - 1)) # IsWord(CharAt(s, i))
\* \d{1,2} at position i, taken with n digits
DigitsAt(s, i, n) == \A k \in i .. i + n - 1 : IsDigit(CharAt(s, k))
\* int() of the n digits at position i
IntAt(s, i, n) == IF n = 1 THEN DigitVal(s[i]) ELSE 10 * DigitVal(s[i]) + DigitVal(s[i + 1])

\* _AMBIG_DOT_RE matches at position i with an hour of n digits:
\* \b(\d{1,2})\.(0[1-9]|1[0-2])\b(?![./]\d)
AmbigDotAt(s, i, n) ==
    /\ WordBoundary(s, i)
    /\ DigitsAt(s, i, n)
    /\ CharAt(s, i + n) = "."
    /\ DigitsAt(s, i + n + 1, 2) /\ IntAt(s, i + n + 1, 2) \in 1 .. 12
    /\ WordBoundary(s, i + n + 3)
    /\ ~(CharAt(s, i + n + 3) \in {".", "/"} /\ IsDigit(CharAt(s, i + n + 4)))

\* _EXPLICIT_TIME_RE matches at position i, for the alternatives a text of
\* these characters can meet: N:MM, N.00 and N.13 to N.99, "v N".
ExplicitTimeAt(s, i) ==
    /\ WordBoundary(s, i)
    /\ \/ \E n \in {1, 2} :
             /\ DigitsAt(s, i, n)
             /\ CharAt(s, i + n) \in {":", "-"}
             /\ DigitsAt(s, i + n + 1, 2)
             /\ WordBoundary(s, i + n + 3)
       \/ \E n \in {1, 2} :
             /\ DigitsAt(s, i, n)
             /\ CharAt(s, i + n) = "."
             /\ DigitsAt(s, i + n + 1, 2)
             /\ IntAt(s, i + n + 1, 2) \in {0} \cup (13 .. 99)
             /\ WordBoundary(s, i + n + 3)
       \/ \E w \in 1 .. Len(s), n \in {1, 2} :
             /\ CharAt(s, i) = "v"
             /\ \A k \in i + 1 .. i + w : CharAt(s, k) = " "
             /\ DigitsAt(s, i + w + 1, n)
             /\ WordBoundary(s, i + w + n + 1)

\* _has_explicit_time(text)
HasExplicitTime(s) == \E i \in 1 .. Len(s) : ExplicitTimeAt(s, i)

\* The None that _find_dot_ambiguity returns, in the shape of its tuple.
NoAmbiguity == [found |-> FALSE, fragment |-> <<>>, h |-> 0, mn |-> 0]

\* _find_dot_ambiguity(text): re.search takes the leftmost match.
FindDotAmbiguity(s) ==
    LET starts == {i \in 1 .. Len(s) : \E n \in {1, 2} : AmbigDotAt(s, i, n)}
    IN  IF starts = {} THEN NoAmbiguity
        ELSE LET i == CHOOSE k \in starts : \A o \in starts : k <= o
                 n == CHOOSE k \in {1, 2} : AmbigDotAt(s, i, k)
                 h == IntAt(s, i, n)
                 mn == IntAt(s, i + n + 1, 2)
                 rest == SubSeq(s, 1, i - 1) \o SubSeq(s, i + n + 3, Len(s))
             IN  IF h > 23 THEN NoAmbiguity
                 ELSE IF HasExplicitTime(rest) THEN NoAmbiguity
                 ELSE [found |-> TRUE, fragment |-> SubSeq(s, i, i + n + 2), h |-> h, mn |-> mn]

\* The texts given to _find_dot_ambiguity: one dotted pair "h.mm" between a
\* head and a tail.
PairHeads == {<<>>, <<"x", " ">>}
PairHours == {<<"0">>, <<"9">>, <<"1", "8">>, <<"2", "3">>, <<"2", "4">>, <<"3", "0">>}
PairMinutes == {<<"0", "0">>, <<"0", "2">>, <<"0", "5">>, <<"1", "2">>, <<"1", "3">>, <<"3", "0">>}
PairTails ==
    { <<>>, <<" ", "x">>, <<".">>,
      <<".", "2", "0", "2", "6">>, <<".", "2", "6">>, <<".", "1", "1">>, <<"/", "3">>,
      <<" ", "1", "0", ":", "0", "0">>, <<" ", "v", " ", "1", "0">> }
PairText(t) == t.head \o t.h \o <<".">> \o t.mm \o t.tail

ParseInit ==
    /\ now = Now0
    /\ ticks = 0
    /\ ops = 1
    /\ restarts = 0
    /\ running = FALSE
    /\ db = <<>>
    /\ usettings = [u \in Users |-> NoSettings]
    /\ jobs = {}
    /\ inflight = {}
    /\ \E t \in [head : PairHeads, h : PairHours, mm : PairMinutes, tail : PairTails] :
          fsm = [u \in Users |-> IF u = 100 THEN [NoDialog EXCEPT !.raw_text = t] ELSE NoDialog]
    /\ last = Did("init", None, None, NoAmbiguity, FALSE, FALSE, FALSE)

\* ambiguity = _find_dot_ambiguity(text)
CallFindDotAmbiguity ==
    /\ ops > 0 /\ ops' = ops - 1
    /\ last' = Did("find_dot_ambiguity", None, 100, FindDotAmbiguity(PairText(fsm[100].raw_text)),
                   FALSE, FALSE, FALSE)
    /\ UNCHANGED <<now, ticks, restarts, running, db, usettings, jobs, inflight, fsm>>

ParseNext == CallFindDotAmbiguity

ParseSpec == ParseInit /\ [][ParseNext]_vars

\* The character of one decimal digit, and a year as the four characters
\* that f"{year}" writes.
DigitChar(v) ==
    CASE v = 0 -> "0" [] v = 1 -> "1" [] v = 2 -> "2" [] v = 3 -> "3" [] v = 4 -> "4"
      [] v = 5 -> "5" [] v = 6 -> "6" [] v = 7 -> "7" [] v = 8 -> "8" [] v = 9 -> "9"
YearDigits(y) ==
    <<DigitChar(y \div 1000), DigitChar((y \div 100) % 10), DigitChar((y \div 10) % 10), DigitChar(y % 10)>>

\* _SHORT_DATE_RE matches at position i with a day of n digits and a month
\* of k digits: \b(\d{1,2})[./](\d{1,2})(?![./]\d)\b
ShortDateAt(s, i, n, k) ==
    /\ WordBoundary(s, i)
    /\ DigitsAt(s, i, n)
    /\ CharAt(s, i + n) \in {".", "/"}
    /\ DigitsAt(s, i + n + 1, k)
    /\ ~(CharAt(s, i + n + k + 1) \in {".", "/"} /\ IsDigit(CharAt(s, i + n + k + 2)))
    /\ WordBoundary(s, i + n + k + 1)

\* _SHORT_DATE_RE.sub(expand, text) from position p on: every match becomes
\* f"{m.group(1)}.{m.group(2)}.{year}".
RECURSIVE ExpandFrom(_, _, _)
ExpandFrom(s, p, year) ==
    IF p > Len(s) THEN <<>>
    ELSE LET shapes == {nk \in {1, 2} \X {1, 2} : ShortDateAt(s, p, nk[1], nk[2])}
         IN  IF shapes = {} THEN <<s[p]>> \o ExpandFrom(s, p + 1, year)
             ELSE LET nk == CHOOSE x \in shapes : \A o \in shapes : x[1] > o[1] \/ (x[1] = o[1] /\ x[2] >= o[2])
                      n == nk[1]
                      k == nk[2]
                  IN  SubSeq(s, p, p + n - 1) \o <<".">> \o SubSeq(s, p + n + 1, p + n + k)
                        \o <<".">> \o YearDigits(year) \o ExpandFrom(s, p + n + k + 1, year)

\* _expand_short_dates(text, year)
ExpandShortDates(s, year) == ExpandFrom(s, 1, year)

\* What stands for the None of dateparser.parse and of _parse_reminder where
\* 0 is an instant: no instant is negative.
NoDate == -2

\* dateparser.parse(date_str, settings=DATE_ORDER DMY) for "D.M.YYYY" and
\* "D.M.YYYY HH:MM": the naive instant, NoDate when the text has another
\* shape or names no day of the calendar.
DateParse(s) ==
    LET shapes == {nk \in {1, 2} \X {1, 2} :
                      /\ DigitsAt(s, 1, nk[1]) /\ CharAt(s, nk[1] + 1) = "."
                      /\ DigitsAt(s, nk[1] + 2, nk[2]) /\ CharAt(s, nk[1] + nk[2] + 2) = "."
                      /\ DigitsAt(s, nk[1] + nk[2] + 3, 4)
                      /\ Len(s) \in {nk[1] + nk[2] + 6, nk[1] + nk[2] + 12}}
    IN  IF shapes = {} THEN NoDate
        ELSE LET nk == CHOOSE x \in shapes : TRUE
                 d == IntAt(s, 1, nk[1])
                 m == IntAt(s, nk[1] + 2, nk[2])
                 yp == nk[1] + nk[2] + 3
                 y == 100 * IntAt(s, yp, 2) + IntAt(s, yp + 2, 2)
                 timed == Len(s) = yp + 9
                 clock == /\ CharAt(s, yp + 4) = " " /\ DigitsAt(s, yp + 5, 2)
                          /\ CharAt(s, yp + 7) = ":" /\ DigitsAt(s, yp + 8, 2)
                 hh == IF timed /\ clock THEN IntAt(s, yp + 5, 2) ELSE 0
                 mi == IF timed /\ clock THEN IntAt(s, yp + 8, 2) ELSE 0
             IN  IF (timed /\ ~clock) \/ hh > 23 \/ mi > 59 THEN NoDate
                 ELSE IF y < EpochYear \/ m \notin 1 .. 12 \/ d \notin 1 .. DaysInMonth(y, m) THEN NoDate
                 ELSE FromCivil([year |-> y, month |-> m, day |-> d, minute |-> hh * Hour + mi])

\* The part of _parse_reminder that resolves the joined fragments:
\* date_str = _expand_short_dates(..., year=now.year); dt = dateparser.parse(date_str);
\* None when dt is None; dt = _shift_to_future(dt, now=now), whose
\* dt.replace raises ValueError for 29 February.
Resolve(s, nw) ==
    LET dt == DateParse(ExpandShortDates(s, ToCivil(nw).year))
    IN  IF dt = NoDate THEN NoDate
        ELSE IF ShiftRaises(dt, nw) THEN ValueError
        ELSE ShiftToFuture(dt, nw)

\* The fragments given to resolve: a short date "d.m" or "d/m", alone or with
\* a time of day, and the instants (UTC) at which it is resolved.
ShortDays == {<<"1">>, <<"0", "1">>, <<"1", "9">>, <<"2", "9">>, <<"3", "1">>}
ShortSeps == {".", "/"}
ShortMonths == {<<"1">>, <<"0", "2">>, <<"2">>, <<"0", "6">>, <<"1", "2">>}
ShortTails == {<<>>, <<" ", "1", "0", ":", "0", "0">>}
ShortText(t) == t.day \o <<t.sep>> \o t.month \o t.tail
ResolveNows ==
    { Now0, At(2026, 6, 1, 7, 0), At(2026, 12, 31, 20, 30), At(2027, 2, 1, 0, 0),
      At(2028, 2, 28, 12, 0), At(2028, 3, 1, 8, 0) }

ResolveInit ==
    /\ now \in ResolveNows
    /\ ticks = 0
    /\ ops = 1
    /\ restarts = 0
    /\ running = FALSE
    /\ db = <<>>
    /\ usettings = [u \in Users |-> NoSettings]
    /\ jobs = {}
    /\ inflight = {}
    /\ \E t \in [day : ShortDays, sep : ShortSeps, month : ShortMonths, tail : ShortTails] :
          fsm = [u \in Users |-> IF u = 100 THEN [NoDialog EXCEPT !.raw_text = t] ELSE NoDialog]
    /\ last = Did("init", None, None, NoDate, FALSE, FALSE, FALSE)

\* now = _now_tz(user_tz); parsed = _parse_reminder(raw, dp_settings=dp_s, now=now)
CallResolve ==
    /\ ops > 0 /\ ops' = ops - 1
    /\ last' = Did("resolve", None, 100,
                   Resolve(ShortText(fsm[100].raw_text), NowTz(now, UserTz(usettings, 100))),
                   FALSE, FALSE, FALSE)
    /\ UNCHANGED <<now, ticks, restarts, running, db, usettings, jobs, inflight, fsm>>

ResolveNext == CallResolve

ResolveSpec == ResolveInit /\ [][ResolveNext]_vars

\* The reschedule dialog and the buttons of a notification, with one more
\* request and up to two reminders of user 100 in the table at the start, none
\* recurring, each due in an hour or three days ago: the process starts, the
\* clock advances, timers fire, sends return, and the owner snoozes, opens the
\* dialog, answers it or cancels it.
DialogRows == {NewReminder(100, NowTz(Now0, SettingsTimezone) + off) : off \in {Hour, -(3 * Day)}}

DialogInit ==
    /\ now = Now0
    /\ ticks = 0
    /\ ops = MaxDialogOps
    /\ restarts = 0
    /\ running = FALSE
    /\ db \in {<<r>> : r \in DialogRows} \cup {<<r, s>> : r \in DialogRows, s \in DialogRows}
    /\ usettings = [u \in Users |-> NoSettings]
    /\ jobs = {}
    /\ inflight = {}
    /\ fsm = [u \in Users |-> NoDialog]
    /\ last = Did("init", None, None, "ok", FALSE, FALSE, FALSE)

DialogNext ==
    \/ Startup
    \/ \E d \in TickSteps : Tick(d)
    \/ \E j \in jobs : Fire(j)
    \/ \E f \in inflight : DeliverOk(f)
    \/ \E u \in Writers, i \in Ids : Snooze(u, i)
    \/ \E u \in Writers, i \in Ids : SnoozeDay(u, i)
    \/ \E u \in Writers, i \in Ids : RescheduleStart(u, i)
    \/ \E u \in Writers, inp \in RescheduleInputs : RescheduleInput(u, inp)
    \/ \E u \in Writers : CmdCancel(u)

DialogSpec == DialogInit /\ [][DialogNext]_vars

\* ------------------------------------------------------------------ claims
PendingRow(d, id) == Exists(d, id) /\ d[id].is_active /\ ~d[id].is_confirmed
JobsOf(js, id) == {j \in js : j.id = id}
\* The clock of the run has stopped while a job of the reminder is still armed.
TimeUp(id) == ticks = MaxTicks /\ running /\ JobsOf(jobs, id) # {}

\* C1: while the process runs, every reminder with is_active and not
\* is_confirmed has exactly one job keyed by its id, or a delivery of it is
\* executing.
C1_OneTimerPerPendingReminder ==
    running =>
        \A id \in Ids :
            PendingRow(db, id) =>
                \/ Cardinality(JobsOf(jobs, id)) = 1
                \/ \E f \in inflight : f.id = id

\* The reminder's remind_at has come, on its owner's wall clock.
Due(id) == db[id].remind_at <= NowTz(now, UserTz(usettings, db[id].user_id))

\* C2: a reminder that is persisted and stays active and unconfirmed is
\* eventually delivered (its notification reference is recorded), restarts
\* included, when jobs fire and sends succeed, unless the clock stopped before
\* its remind_at.
C2_AtLeastOnceDispatch ==
    \A id \in Ids :
        PendingRow(db, id) ~>
            \/ ~PendingRow(db, id)
            \/ db[id].message_id # None
            \/ (ticks = MaxTicks /\ ~Due(id))

\* C3: after a delivery whose send failed, the reminder, if still active and
\* unconfirmed, has a job armed for a later attempt.
C3_FailedSendKeepsTimer ==
    (last.op = "deliver" /\ last.res = "failed" /\ PendingRow(db, last.id))
        => JobsOf(jobs, last.id) # {}

\* C4: no state holds two jobs for one reminder id, and a snooze, snooze-day
\* or reschedule of a reminder leaves exactly one job for it, set to the new
\* instant: a job armed earlier for another instant is gone.
C4_ScheduleTwiceKeepsSecond ==
    /\ [](\A j, k \in jobs : j.id = k.id => j = k)
    /\ [][(last'.op \in {"snooze", "snooze_day", "reschedule_input"} /\ last'.res = "ok")
            => \E j \in jobs' : /\ JobsOf(jobs', last'.id) = {j}
                                /\ j.run_date = db'[last'.id].remind_at]_vars

\* Reminder 1, armed at start for one hour ahead, was then moved by snooze-day.
C4_Witness ==
    /\ ops = MaxOps - 1 /\ ticks = 0 /\ restarts = 0
    /\ last.op = "snooze_day" /\ last.res = "ok"
    /\ db[last.id].remind_at = NowTz(now, SettingsTimezone) + Hour + Day
    /\ \E j \in jobs : JobsOf(jobs, last.id) = {j} /\ j.run_date = db[last.id].remind_at

\* C5: a job that fires for a reminder that is missing, inactive or confirmed
\* starts no delivery: nothing is sent or retracted, no reminder field changes
\* and no job is armed.
C5_StaleFireIsNoOp ==
    [][(/\ last'.op = "fire"
        /\ ~(Exists(db, last'.id) /\ db[last'.id].is_active /\ ~db[last'.id].is_confirmed))
          => /\ db' = db
             /\ inflight' = inflight
             /\ jobs' \subseteq jobs
             /\ ~last'.sent /\ ~last'.retracted]_vars

\* A job fired for a reminder that had been deleted.
C5_Witness ==
    /\ last.op = "fire" /\ last.res = "noop"
    /\ Exists(db, last.id) /\ ~db[last.id].is_active

\* C6: while a reminder stays active and unconfirmed and nobody acts on it, a
\* delivery that recorded notification m is eventually followed by another
\* delivery of the reminder, unless the clock stopped short of the armed job.
C6_RepromptChain ==
    \A id \in Ids : \A m \in {1, 2} :
        (PendingRow(db, id) /\ db[id].message_id = m) ~>
            \/ ~PendingRow(db, id)
            \/ db[id].message_id # m
            \/ TimeUp(id)

\* C7: right after the owner confirms a non-recurring reminder it is confirmed
\* and inactive with no job armed, and no notification of a confirmed reminder
\* is sent.
C7_ConfirmEndsNonRecurring ==
    /\ (last.op = "done" /\ last.res = "ok" /\ db[last.id].recurrence = NoRec)
         => /\ db[last.id].is_confirmed /\ ~db[last.id].is_active
            /\ JobsOf(jobs, last.id) = {}
    /\ (last.op = "deliver" /\ last.res = "sent" /\ db[last.id].recurrence = NoRec)
         => ~db[last.id].is_confirmed

\* C8: right after the owner confirms a recurring reminder it is active and
\* unconfirmed, and exactly one job is armed for it, at its remind_at, which is
\* after now.
C8_ConfirmKeepsRecurringAlive ==
    (last.op = "done" /\ last.res = "ok" /\ db[last.id].recurrence # NoRec)
        => /\ db[last.id].is_active /\ ~db[last.id].is_confirmed
           /\ \E j \in jobs : JobsOf(jobs, last.id) = {j} /\ j.run_date = db[last.id].remind_at
           /\ db[last.id].remind_at > NowTz(now, UserTz(usettings, last.uid))

\* C9: confirming a recurring reminder sets remind_at and recurrence_anchor to
\* the first instant strictly after now among anchor + k periods, k >= 1.
C9_ConfirmAdvancesFromAnchor ==
    [][(last'.op = "done" /\ last'.res = "ok" /\ db[last'.id].recurrence # NoRec)
          => LET r == db[last'.id]
                 anchor == IF r.recurrence_anchor # None THEN r.recurrence_anchor ELSE r.remind_at
                 nxt == CatchUp(NextOccurrence(anchor, r.recurrence),
                                NowTz(now, UserTz(usettings, r.user_id)), r.recurrence)
             IN  /\ db'[last'.id].remind_at = nxt
                 /\ db'[last'.id].recurrence_anchor = nxt]_vars

\* C10: a confirm, snooze, snooze-day, reschedule start or input, or delete by
\* a user who does not own the reminder changes no reminder, arms or cancels no
\* job, edits no notification and opens no dialog.
C10_NonOwnerChangesNothing ==
    [][(/\ last'.op \in {"done", "snooze", "snooze_day", "reschedule_start", "reschedule_input",
                         "delete", "delete_id", "list_delete", "api_delete"}
        /\ last'.id # None
        /\ ~(Exists(db, last'.id) /\ db[last'.id].user_id = last'.uid))
          => /\ db' = db
             /\ jobs' = jobs
             /\ ~last'.edited
             /\ fsm'[last'.uid].state \in {fsm[last'.uid].state, "none"}
             /\ \A u \in Users \ {last'.uid} : fsm'[u] = fsm[u]]_vars

\* User 200 pressed "done" on a pending reminder of user 100.
C10_Witness ==
    /\ last.op = "done" /\ last.res = "not_found" /\ last.uid = 200
    /\ PendingRow(db, last.id) /\ db[last.id].user_id = 100

\* The operations that change a reminder named by its id.
MutatingOps ==
    {"done", "snooze", "snooze_day", "reschedule_start", "reschedule_input",
     "delete", "delete_id", "list_delete", "api_delete"}

\* A user request was handled in this step.
Handled == ops' = ops - 1

\* C11: the response to a mutating action on a reminder id is one and the same
\* whether the id names no reminder or a reminder of another user: the same
\* answer, no change of rows, timers or settings, and the same dialog state (the
\* delete commands close the caller's dialog, the others leave it), none of which
\* depends on whether the row exists.
C11_MissingAndForeignAnswerAlike ==
    [][(/\ Handled
        /\ last'.op \in MutatingOps
        /\ last'.id \in Ids
        /\ ~Owned(db, last'.id, last'.uid))
       => /\ last' = Did(last'.op, last'.id, last'.uid, "not_found", FALSE, FALSE, FALSE)
          /\ db' = db /\ jobs' = jobs /\ usettings' = usettings /\ inflight' = inflight
          /\ fsm' = IF last'.op \in {"delete", "delete_id", "reschedule_input"}
                    THEN [fsm EXCEPT ![last'.uid] = NoDialog]
                    ELSE fsm]_vars

\* A request for an id that names no reminder, made while another user's
\* reminder exists, was answered "not found".
C11_Witness ==
    /\ last.op \in MutatingOps /\ last.res = "not_found"
    /\ last.uid = 200 /\ last.id = 2
    /\ Len(db) = 1 /\ db[1].user_id = 100

\* The jobs of reminder id are exactly one job, set for run_date.
OneJobAt(js, id, run_date) ==
    /\ Cardinality(JobsOf(js, id)) = 1
    /\ \A j \in JobsOf(js, id) : j.run_date = run_date

\* C12: a snooze by one hour of an owned reminder sets remind_at to now in the
\* owner's timezone plus one hour, is_confirmed to false whatever it was,
\* is_snoozed to true and message_id to none, and leaves exactly one timer of
\* the reminder, at the new remind_at (an earlier timer is gone).
C12_SnoozeHour ==
    [][(Handled /\ last'.op = "snooze" /\ last'.res = "ok")
       => LET id == last'.id
              at == NowTz(now, UserTz(usettings, last'.uid)) + Hour
          IN  /\ db'[id].remind_at = at
              /\ ~db'[id].is_confirmed
              /\ db'[id].is_snoozed
              /\ db'[id].message_id = None
              /\ OneJobAt(jobs', id, at)]_vars

\* A reminder that had been closed (confirmed or deleted) was snoozed by one
\* hour and is unconfirmed, with its one timer at the new remind_at.
C12_Witness ==
    /\ last.op = "snooze" /\ last.res = "ok"
    /\ ~db[last.id].is_active /\ ~db[last.id].is_confirmed /\ db[last.id].is_snoozed
    /\ OneJobAt(jobs, last.id, db[last.id].remind_at)

\* C13: a snooze by one day of an owned reminder sets remind_at to the old
\* remind_at plus one day, or to now (owner's timezone) plus one day when the
\* old remind_at plus one day is not after now; the new remind_at is always
\* after now; is_confirmed is false, is_snoozed true, message_id none, and
\* exactly one timer of the reminder exists, at the new remind_at.
C13_SnoozeDay ==
    [][(Handled /\ last'.op = "snooze_day" /\ last'.res = "ok")
       => LET id == last'.id
              lnow == NowTz(now, UserTz(usettings, last'.uid))
              plus == db[id].remind_at + Day
          IN  /\ db'[id].remind_at = IF plus <= lnow THEN lnow + Day ELSE plus
              /\ db'[id].remind_at > lnow
              /\ ~db'[id].is_confirmed
              /\ db'[id].is_snoozed
              /\ db'[id].message_id = None
              /\ OneJobAt(jobs', id, db'[id].remind_at)]_vars

\* The reminder that was three days overdue at the first start was snoozed by
\* a day before the clock moved: its remind_at is now plus one day.
C13_Witness ==
    /\ last.op = "snooze_day" /\ last.res = "ok" /\ last.id = 1
    /\ ticks = 0 /\ restarts = 0 /\ ops = MaxOps - 1
    /\ db[1].remind_at = NowTz(now, UserTz(usettings, db[1].user_id)) + Day
    /\ db[1].is_snoozed
    /\ OneJobAt(jobs, 1, db[1].remind_at)

\* C14: starting a reschedule dialog changes no reminder field and holds the
\* reminder's remind_at; a /cancel in that dialog changes no reminder field,
\* closes the dialog and leaves exactly one timer of the reminder, at the held
\* remind_at, or at now (dialog's timezone) when the held instant is not after
\* now: the reminder is not left unscheduled.
C14_CancelRestoresTimer ==
    [][/\ (Handled /\ last'.op = "reschedule_start" /\ last'.res = "ok")
          => /\ db' = db
             /\ fsm'[last'.uid].reminder_id = last'.id
             /\ fsm'[last'.uid].original_remind_at = db[last'.id].remind_at
       /\ (Handled /\ last'.op = "cancel" /\ fsm[last'.uid].state = "waiting_for_reschedule")
          => LET d == fsm[last'.uid]
                 lnow == NowTz(now, d.tz_name)
             IN  /\ db' = db
                 /\ fsm'[last'.uid] = NoDialog
                 /\ OneJobAt(jobs', d.reminder_id,
                             IF d.original_remind_at > lnow THEN d.original_remind_at ELSE lnow)]_vars

\* A reschedule dialog of a pending reminder was cancelled: the dialog is
\* closed and the reminder's one timer is at its remind_at, still ahead.
C14_Witness ==
    /\ last.op = "cancel" /\ last.res = "ok" /\ last.id # None
    /\ fsm[last.uid] = NoDialog
    /\ PendingRow(db, last.id)
    /\ ~Due(last.id)
    /\ OneJobAt(jobs, last.id, db[last.id].remind_at)

\* The UTC minute a wall-clock instant of timezone tz stands for.
Instant(at, tz) == at - Off(tz)

\* C15: in the reschedule dialog an input that dateparser cannot resolve, or
\* that resolves to an instant not after now, is answered with a new prompt and
\* changes nothing: no reminder field, no timer, no setting, and the dialog
\* stays open as it was.  Only an instant after now moves the reminder.
C15_BadRescheduleInputChangesNothing ==
    [][(Handled /\ last'.op = "reschedule_input")
       => /\ last'.res \in {"retry", "ok", "not_found"}
          /\ last'.res = "retry"
             => /\ db' = db /\ jobs' = jobs /\ usettings' = usettings
                /\ fsm' = fsm /\ fsm[last'.uid].state = "waiting_for_reschedule"
          /\ last'.res = "ok"
             => /\ Instant(db'[last'.id].remind_at, fsm[last'.uid].tz_name) > now
                /\ \A j \in JobsOf(jobs', last'.id) : JobDue(j) > now]_vars

\* An input in the past was answered with a new prompt; the dialog is open and
\* the reminder it names is still without a timer, as the dialog's start left it.
C15_Witness ==
    /\ last.op = "reschedule_input" /\ last.res = "retry"
    /\ fsm[last.uid].state = "waiting_for_reschedule"
    /\ fsm[last.uid].reminder_id = last.id
    /\ db[last.id].remind_at = fsm[last.uid].original_remind_at
    /\ JobsOf(jobs, last.id) = {}

Delivered(id) ==
    inflight' # inflight /\ last'.op = "deliver" /\ last'.sent /\ last'.id = id

\* C17: a reminder whose is_active is false keeps is_active false and is not
\* delivered, whatever step follows: snooze, snooze-day, reschedule, /cancel,
\* a timer fire, a delivery in progress or a restart.
C17_InactiveStaysSilent ==
    [][\A id \in 1 .. Len(db) :
          ~db[id].is_active => ~db'[id].is_active /\ ~Delivered(id)]_vars

\* The operations of the bot's create flow.
CreateOps == {"create", "clarify", "time_input"}

\* C18: a step of the bot's create flow that persists a reminder appends one
\* row whose remind_at is after now in the owner's time and arms exactly one
\* timer of it, at remind_at; every other answer of the flow (no date, a date
\* in the past, a prompt for a time or for a clarification) leaves rows and
\* timers as they were.
C18_CreatedInFutureAndArmed ==
    [][(Handled /\ last'.op \in CreateOps)
       => IF last'.res = "created"
          THEN LET id == Len(db) + 1
               IN  /\ last'.id = id
                   /\ Len(db') = id
                   /\ \A i \in 1 .. Len(db) : db'[i] = db[i]
                   /\ db'[id].user_id = last'.uid
                   /\ db'[id].remind_at > NowTz(now, UserTz(usettings, last'.uid))
                   /\ OneJobAt(jobs', id, db'[id].remind_at)
          ELSE db' = db /\ jobs' = jobs]_vars

C20_OwnersCurrentTimezone ==
    /\ \A j \in jobs : Exists(db, j.id) => j.tz = UserTz(usettings, db[j.id].user_id)
    /\ \A u \in Users : fsm[u].tz_name # NoTz => fsm[u].tz_name = UserTz(usettings, u)
    /\ \A f \in inflight : f.tz = UserTz(usettings, db[f.id].user_id)

C22_CancelIdempotent ==
    [][/\ \A id \in Ids :
             /\ JobsOf(jobs, id) = {} => CancelJob(jobs, id) = jobs
             /\ CancelJob(CancelJob(jobs, id), id) = CancelJob(jobs, id)
             /\ JobsOf(CancelJob(jobs, id), id) = {}
             /\ \A other \in Ids \ {id} : JobsOf(CancelJob(jobs, id), other) = JobsOf(jobs, other)
       /\ (Handled /\ last'.op \in {"done", "reschedule_start"} /\ last'.res = "ok")
             => jobs' = {j \in jobs : j.id # last'.id}]_vars

\* A reminder whose timer had fired, and so had none armed, was confirmed
\* while the timer of another reminder was armed: that timer is still there.
C22_Witness ==
    /\ last.op = "done" /\ last.res = "ok"
    /\ \E f \in inflight : f.id = last.id
    /\ JobsOf(jobs, last.id) = {}
    /\ \E j \in jobs : j.id # last.id

\* The answer of the pipeline to a text with an ambiguous dotted pair: the
\* clarification prompt, the text kept, no date held, no row, no timer.
AwaitsClarification(uid, raw) ==
    /\ last'.res = "clarify" /\ last'.id = None
    /\ db' = db /\ jobs' = jobs
    /\ fsm'[uid].state = "waiting_for_dot_clarification"
    /\ fsm'[uid].raw_text = raw
    /\ fsm'[uid].remind_date = None /\ fsm'[uid].tz_name = NoTz

\* C23: whenever the pipeline runs on a text with an ambiguous dotted pair,
\* first from a message or again after the answer "date" to the prompt, it
\* asks for the clarification before it resolves a date: it holds the raw
\* text, holds no date, persists no reminder and arms no timer.
C23_AmbiguityBeforeDate ==
    [][\A u \in Writers :
          /\ \A raw \in CreateTexts(NowTz(now, UserTz(usettings, u))) :
                (raw.amb /\ RemindFromText(u, raw)) => AwaitsClarification(u, raw)
          /\ DotClarification(u, "clarify:date") => AwaitsClarification(u, fsm[u].raw_text)]_vars

\* A message with an ambiguous pair was answered with the clarification
\* prompt; the text is held with both of its readings.
C23_Witness ==
    /\ last.op = "create" /\ last.res = "clarify"
    /\ fsm[last.uid].state = "waiting_for_dot_clarification"
    /\ fsm[last.uid].raw_text.amb
    /\ fsm[last.uid].raw_text.dt # None /\ fsm[last.uid].raw_text.time_dt # None

\* C24: a text whose date resolves and which has no explicit time persists
\* nothing and arms nothing; the dialog holds the resolved date.  An answer to
\* the prompt for a time persists a reminder exactly when it parses and the
\* held date at that time is an instant after now, and then remind_at is the
\* held date at that time; an unparseable or past answer is met with a new
\* prompt, the dialog stays as it was and nothing is persisted or armed.
C24_DateHeldUntilTime ==
    [][\A u \in Writers :
          /\ \A raw \in CreateTexts(NowTz(now, UserTz(usettings, u))) :
                LET lnow == NowTz(now, UserTz(usettings, u))
                IN  (/\ ~raw.amb /\ raw.dt # None /\ ~raw.explicit
                     /\ ~ShiftRaises(raw.dt, lnow)
                     /\ RemindFromText(u, raw))
                    => /\ last'.res = "need_time"
                       /\ db' = db /\ jobs' = jobs
                       /\ fsm'[u].state = "waiting_for_time"
                       /\ fsm'[u].remind_date =
                             ShiftToFuture(raw.dt, lnow) - (ShiftToFuture(raw.dt, lnow) % Day)
          /\ \A t \in TimeInputs :
                TimeInput(u, t)
                => LET dt == fsm[u].remind_date + t
                       good == t # None /\ Instant(dt, fsm[u].tz_name) > now
                   IN  IF good
                       THEN /\ last'.res = "created"
                            /\ Len(db') = Len(db) + 1
                            /\ db'[Len(db')].remind_at = dt
                            /\ OneJobAt(jobs', Len(db'), dt)
                            /\ fsm'[u] = NoDialog
                       ELSE /\ last'.res \in {"retry", "past"}
                            /\ db' = db /\ jobs' = jobs /\ fsm' = fsm]_vars

\* A time that makes a past instant with the held date was answered with a
\* new prompt: the dialog is open with its date and no reminder was added.
C24_Witness ==
    /\ last.op = "time_input" /\ last.res = "past"
    /\ fsm[last.uid].state = "waiting_for_time"
    /\ fsm[last.uid].remind_date # None
    /\ \A id \in 1 .. Len(db) : db[id].remind_at < fsm[last.uid].remind_date

\* Every settings row has one of the offered intervals and one of the offered
\* timezones.
SettingsValid(us) ==
    \A u \in Users :
        us[u].exists => us[u].snooze_minutes \in SNOOZE_OPTIONS /\ us[u].timezone \in VALID_TZ_IDS

\* C25: before and after every step each UserSettings row has snooze_minutes
\* in {5, 15, 30} and a timezone of the option list; a settings action that
\* carries any other value is rejected and changes no settings row.
C25_SettingsStayValid ==
    [][/\ SettingsValid(usettings) /\ SettingsValid(usettings')
       /\ \A u \in Writers :
             /\ \A m \in SnoozeInputs :
                   (m \notin SNOOZE_OPTIONS /\ SnoozeSetting(u, m))
                   => last'.res = "rejected" /\ usettings' = usettings
             /\ \A z \in TzInputs :
                   (z \notin VALID_TZ_IDS /\ TimezoneSetting(u, z))
                   => last'.res = "rejected" /\ usettings' = usettings]_vars

\* An interval that is not offered was rejected; the user's row, made by an
\* earlier accepted choice of timezone, is as that choice left it.
C25_Witness ==
    /\ last.op = "settings_snooze" /\ last.res = "rejected"
    /\ usettings[last.uid].exists
    /\ usettings[last.uid].timezone = "Asia/Yekaterinburg"
    /\ usettings[last.uid].snooze_minutes = DEFAULT_SNOOZE_MINUTES

\* C26: _next_occurrence adds exactly one hour, one day or seven days for
\* hourly, daily and weekly; for monthly and yearly it gives the same time of
\* day in the next month or year, on the same day of the month or, when that
\* month is shorter, on its last day, never in the month after; the result is
\* always later than the input; an unknown kind raises an error.
C26_AdvanceByKind ==
    [][last'.op = "next_occurrence"
       => LET t == db[1].remind_at
              rec == db[1].recurrence
              r == db'[1].remind_at
              c == ToCivil(t)
              n == ToCivil(r)
          IN  IF rec \notin Recurrences
              THEN last'.res = "error" /\ db' = db
              ELSE /\ last'.res = "ok" /\ r > t
                   /\ rec = "hourly" => r = t + 60
                   /\ rec = "daily" => r = t + 24 * 60
                   /\ rec = "weekly" => r = t + 7 * 24 * 60
                   /\ rec = "monthly"
                      => /\ n.year = (IF c.month = 12 THEN c.year + 1 ELSE c.year)
                         /\ n.month = (IF c.month = 12 THEN 1 ELSE c.month + 1)
                         /\ n.day = Min(c.day, DaysInMonth(n.year, n.month))
                         /\ n.minute = c.minute
                   /\ rec = "yearly"
                      => /\ n.year = c.year + 1 /\ n.month = c.month
                         /\ n.day = Min(c.day, DaysInMonth(n.year, n.month))
                         /\ n.minute = c.minute]_vars

\* Two monthly advances from 31 January 2026 10:00 have given 28 March 2026
\* 10:00, by way of 28 February.
C26_Witness ==
    /\ last.op = "next_occurrence" /\ last.res = "ok"
    /\ ops = MaxAdvances - 2
    /\ db[1].recurrence = "monthly"
    /\ db[1].recurrence_anchor = At(2026, 1, 31, 10, 0)
    /\ db[1].remind_at = At(2026, 3, 28, 10, 0)

\* The pair of a text is followed by a separator and a digit: it is the day
\* and month of a full date.
PairInFullDate(t) == Len(t.tail) >= 2 /\ t.tail[1] \in {".", "/"} /\ IsDigit(t.tail[2])
\* The text has an explicit time besides its pair.
PairBesideTime(t) == HasExplicitTime(t.head) \/ HasExplicitTime(t.tail)

\* C27: for a text with one dotted pair, _find_dot_ambiguity returns the
\* pair as written, its hour and its minutes when the minutes are 01 to 12,
\* the first number is at most 23, the text has no other explicit time and
\* the pair is not part of a full date; in every other case it returns None.
C27_FindAmbiguity ==
    last.op = "find_dot_ambiguity"
    => LET t == fsm[100].raw_text
           h == IntAt(t.h, 1, Len(t.h))
           mn == IntAt(t.mm, 1, 2)
       IN  last.res = IF mn \in 1 .. 12 /\ h <= 23 /\ ~PairBesideTime(t) /\ ~PairInFullDate(t)
                      THEN [found |-> TRUE, fragment |-> t.h \o <<".">> \o t.mm, h |-> h, mn |-> mn]
                      ELSE NoAmbiguity

\* The day and month a short date names, and its instant in year y.
ShortDay(t) == IntAt(t.day, 1, Len(t.day))
ShortMonth(t) == IntAt(t.month, 1, Len(t.month))
ShortMinute(t) == IF t.tail = <<>> THEN 0 ELSE IntAt(t.tail, 2, 2) * Hour + IntAt(t.tail, 5, 2)
ShortInYear(t, y) == FromCivil([year |-> y, month |-> ShortMonth(t), day |-> ShortDay(t), minute |-> ShortMinute(t)])

\* C28: a short date without a year that names a day of the reference year
\* resolves to that day and time in the reference year, unless that instant is
\* at or before the reference now: then it resolves to the same day one year
\* later, and no further.
C28_ShortDateYear ==
    LET t == fsm[100].raw_text
        nw == NowTz(now, UserTz(usettings, 100))
        y == ToCivil(nw).year
    IN  (last.op = "resolve" /\ ShortDay(t) <= DaysInMonth(y, ShortMonth(t)))
        => /\ last.res >= 0
           /\ ToCivil(last.res).month = ShortMonth(t)
           /\ ToCivil(last.res).day = ShortDay(t)
           /\ ToCivil(last.res).minute = ShortMinute(t)
           /\ ToCivil(last.res).year = IF ShortInYear(t, y) <= nw THEN y + 1 ELSE y

\* C29: a delivery that passed its guard and finishes after the owner's
\* confirm or delete of the same reminder has committed (the row is no longer
\* active and unconfirmed) sends no notification and arms no timer of the
\* reminder.
C29_ClosedDuringDelivery ==
    [][\A f \in inflight :
          (f \notin inflight' /\ last'.op = "deliver" /\ last'.id = f.id /\ ~Deliverable(db, f.id))
          => /\ ~last'.sent
             /\ JobsOf(jobs', f.id) \subseteq JobsOf(jobs, f.id)]_vars

\* C30: a delivery that finishes after the owner's snooze, snooze-day or
\* reschedule of the same reminder has completed (the row is snoozed and its
\* one timer stands at the new remind_at) leaves that timer as the only one of
\* the reminder, at remind_at, and leaves is_snoozed true.
C30_MovedDuringDelivery ==
    [][\A f \in inflight :
          ( /\ f \notin inflight' /\ last'.op = "deliver" /\ last'.id = f.id
            /\ db[f.id].is_snoozed
            /\ OneJobAt(jobs, f.id, db[f.id].remind_at) )
          => /\ db'[f.id].remind_at = db[f.id].remind_at
             /\ OneJobAt(jobs', f.id, db[f.id].remind_at)
             /\ db'[f.id].is_snoozed]_vars

\* C31: an answer to the clarification prompt, "time" or "date", ends the
\* clarification: the pipeline that runs again on the text reaches the prompt
\* for a time, a saved reminder, the unparseable answer or the rejection of a
\* past instant, and does not ask about the pair again.
C31_ClarificationEnds ==
    [][\A u \in Writers, choice \in {"clarify:time", "clarify:date"} :
          DotClarification(u, choice)
          => /\ fsm'[u].state # "waiting_for_dot_clarification"
             /\ last'.res \in {"need_time", "created", "unparseable", "past"}]_vars

\* C32: no delivery of a reminder starts before its remind_at has come in the
\* owner's time, so no notification is sent before it: a reminder moved into
\* the future by snooze, snooze-day or reschedule stays silent until the new
\* remind_at, whatever operations follow, a reschedule dialog opened and
\* closed with /cancel among them.
C32_NotBeforeRemindAt ==
    [][\A id \in 1 .. Len(db) :
          (jobs' # jobs /\ last'.op = "fire" /\ last'.res = "started" /\ last'.id = id)
          => db[id].remind_at <= NowTz(now, UserTz(usettings, db[id].user_id))]_vars

\* C33: when a reschedule dialog of an owner is closed, by /cancel or by a
\* valid input, every reminder of the owner that is active and unconfirmed
\* has an armed timer or a delivery in progress, the reminder of an earlier
\* dialog that a later reschedule button replaced among them.
C33_DialogCloseLeavesTimers ==
    [][\A u \in Writers :
          ( /\ fsm[u].state = "waiting_for_reschedule" /\ fsm'[u].state = "none"
            /\ last'.op \in {"cancel", "reschedule_input"} )
          => \A id \in 1 .. Len(db') :
                (Owned(db', id, u) /\ Deliverable(db', id))
                => (JobsOf(jobs', id) # {} \/ \E f \in inflight' : f.id = id)]_vars

\* The instant reached from t by k advances of kind rec.
RECURSIVE Advanced(_, _, _)
Advanced(t, rec, k) == IF k = 0 THEN t ELSE NextOccurrence(Advanced(t, rec, k - 1), rec)

\* The recurring reminders that a start of the process finds overdue.
OverdueRecurring(id) ==
    /\ Deliverable(db, id) /\ db[id].recurrence # NoRec
    /\ db[id].remind_at <= NowTz(now, UserTz(usettings, db[id].user_id))

RepeatMinutes(us, uid) == IF us[uid].exists THEN us[uid].snooze_minutes ELSE REMINDER_REPEAT_MINUTES

\* C35: a delivery that sends its notification records a new message_id, sets
\* is_snoozed to false and leaves exactly one timer of the reminder, at now in
\* the owner's timezone plus the owner's snooze_minutes (the default interval
\* without a settings row); remind_at, is_active and is_confirmed stay.
C35_DeliveryEffects ==
    [][\A id \in 1 .. Len(db) :
          Delivered(id)
          => LET uid == db[id].user_id
                 tz == IF usettings[uid].exists THEN usettings[uid].timezone ELSE DEFAULT_TIMEZONE
             IN  /\ db'[id].message_id # None /\ db'[id].message_id # db[id].message_id
                 /\ ~db'[id].is_snoozed
                 /\ OneJobAt(jobs', id, NowTz(now, tz) + RepeatMinutes(usettings, uid))
                 /\ db'[id].remind_at = db[id].remind_at
                 /\ db'[id].is_active = db[id].is_active
                 /\ db'[id].is_confirmed = db[id].is_confirmed]_vars

\* C36: a delivery retracts the previous notification exactly when the row it
\* read records one, and a retract that fails changes nothing else: the fresh
\* notification is sent, its reference is recorded and the re-prompt timer is
\* armed as after a retract that succeeded.
C36_RetractBestEffort ==
    [][\A f \in inflight :
          /\ (DeliverOk(f) \/ DeliverFail(f)) => (last'.retracted <=> f.message_id # None)
          /\ DeliverRetractFailed(f)
             => /\ last'.sent /\ ~last'.retracted
                /\ db'[f.id].message_id = NewMessageId(f.message_id)
                /\ OneJobAt(jobs', f.id, NowTz(now, f.tz) + f.repeat_minutes)]_vars

\* A notification was sent while the one before it could not be retracted:
\* the row records the new reference and the re-prompt timer is armed.
C36_Witness ==
    /\ last.op = "deliver" /\ last.sent /\ ~last.retracted
    /\ db[last.id].message_id = 2
    /\ JobsOf(jobs, last.id) # {}

C38_RescheduleMoves ==
    [][\A u \in Writers, inp \in RescheduleInputs :
          (RescheduleInput(u, inp) /\ inp.ok /\ inp.off > 0)
          => LET id == fsm[u].reminder_id
                 dt == NowTz(now, fsm[u].tz_name) + inp.off
             IN  /\ db' = [db EXCEPT ![id].remind_at = dt, ![id].is_confirmed = FALSE,
                                     ![id].is_snoozed = TRUE, ![id].message_id = None]
                 /\ OneJobAt(jobs', id, dt)
                 /\ JobsOf(jobs', id) \cup jobs = jobs' \cup JobsOf(jobs, id)
                 /\ fsm'[u] = NoDialog]_vars

\* A reschedule input was accepted: the row stands at an instant after now,
\* snoozed, with no message_id, its one timer is at that instant and the
\* dialog is closed.
C38_Witness ==
    /\ last.op = "reschedule_input" /\ last.res = "ok"
    /\ fsm[last.uid].state = "none"
    /\ db[last.id].remind_at > NowTz(now, UserTz(usettings, last.uid))
    /\ db[last.id].is_snoozed /\ ~db[last.id].is_confirmed /\ db[last.id].message_id = None
    /\ OneJobAt(jobs, last.id, db[last.id].remind_at)

\* C39: the top-level create handler takes a text only when the sender is in
\* no dialog.  A request handled while its sender is in a dialog (awaiting a
\* time, a clarification, a reschedule input or a delete id) adds a reminder
\* only as the answer that completes the create flow, and a step of the create
\* flow that persists adds exactly one reminder and closes the dialog.
C39_DialogTextNotCreate ==
    [][/\ \A u \in Writers :
             \A raw \in CreateTexts(NowTz(now, UserTz(usettings, u))) :
                RemindFromText(u, raw) => fsm[u].state = "none"
       /\ (Handled /\ last'.uid \in Users /\ fsm[last'.uid].state # "none" /\ last'.op # "api_create")
          => /\ last'.op # "create"
             /\ Len(db') > Len(db) => last'.op \in {"time_input", "clarify"}
       /\ (Handled /\ last'.op \in CreateOps /\ last'.res = "created")
          => /\ Len(db') = Len(db) + 1
             /\ SubSeq(db', 1, Len(db)) = db
             /\ fsm'[last'.uid].state = "none"]_vars

\* The answer to the prompt for a time completed a create flow: the reminder
\* it persisted is the last row, it has its timer and the dialog is closed.
C39_Witness ==
    /\ last.op = "time_input" /\ last.res = "created"
    /\ last.id = Len(db)
    /\ fsm[last.uid].state = "none"
    /\ JobsOf(jobs, last.id) # {}

\* C40: resolving a text never ends in the error of the +1-year correction:
\* for every instant at or before now, 29 February among them, the outcome is
\* an instant or the answer that nothing could be parsed.
C40_ShiftNeverFails ==
    last.op = "resolve" => last.res # ValueError

====
